---- MODULE Spec2Model ----
(***************************************************************************)
(* Verification model of the kabu stock system:                            *)
(*   - the record store and its conflict-aware upsert                      *)
(*     (backend/models/database.py, backend/models/base.py),               *)
(*   - the HTTP handlers that write to the store (backend/routes/api.py),  *)
(*   - the J-Quants refresh-token manager (backend/utils/token_manager.py).*)
(*                                                                         *)
(* Numbers.  Prices are integers counting thousandths (100.005 is 100005), *)
(* financial ratios are integers counting units of 0.00005 (1.0 is 20000). *)
(* SQL NULL / Python None is NULL.  Dates are integers YYYYMMDD, so that   *)
(* strftime('%Y-%m') is d \div 100 and strftime('%Y') is d \div 10000.     *)
(***************************************************************************)
EXTENDS Integers, Sequences, FiniteSets, TLC

VARIABLES
    companies,          \* table companies: set of rows
    stock_prices,       \* table stock_prices: set of rows
    financial_metrics,  \* table financial_metrics: set of rows
    price_statistics,   \* table price_statistics: set of rows
    today,              \* datetime.now().date() as seen by the handlers
    last,               \* the last operation: its name, inputs and outcome
    tokens,             \* table jquants_tokens (committed contents)
    tokenSeq,           \* AUTOINCREMENT counter of jquants_tokens
    now,                \* local wall clock of the token manager, in hours
    utc_offset,         \* hours the local clock is ahead of UTC
    tickCount,          \* number of clock advances so far
    pc,                 \* concurrent save: position of each process
    txRows,             \* concurrent save: each process's uncommitted table
    txArg,              \* concurrent save: each process's arguments
    lock,               \* concurrent save: holder of the database write lock
    batch,              \* the batch processor: its run in progress
    fetch,              \* a fetcher: its get_stock_info call in progress
    calls,              \* the store: each process's request in progress
    callCount           \* number of requests to the store begun so far

vars == <<companies, stock_prices, financial_metrics, price_statistics, today,
          last, tokens, tokenSeq, now, utc_offset, tickCount,
          pc, txRows, txArg, lock, batch, fetch, calls, callCount>>

storeVars == <<companies, stock_prices, financial_metrics, price_statistics, today>>
tokenVars == <<tokens, tokenSeq, now, utc_offset, tickCount>>
connVars  == <<pc, txRows, txArg, lock>>
batchVars == <<batch>>
fetchVars == <<fetch>>
callVars  == <<calls, callCount>>

----------------------------------------------------------------------------
(* Input domains *)

NULL == -1

Companies == {1, 2}
StoreDates == {20240105}
StoreToday == CHOOSE d \in StoreDates : TRUE

\* 100.000, 100.005, 100.010, 100.020
PriceVals == {100000, 100005, 100010, 100020}
VolumeVals == {0, 1}

\* the prices and volumes used when both tables are exercised together
StorePriceVals == {100000, 100020}
StoreVolumeVals == {0}

\* 1.0 and 1.0002
RatioVals == {20000, 20004}

Abs(x) == IF x < 0 THEN -x ELSE x

Max(S) == CHOOSE x \in S : \A y \in S : y <= x
Min(S) == CHOOSE x \in S : \A y \in S : x <= y

----------------------------------------------------------------------------
(* Record store.  The surrogate rowid of stock_prices, financial_metrics   *)
(* and price_statistics rows is not part of the model; a table is the set  *)
(* of its rows' column values.                                             *)

\* id of the next inserted company: larger than every id in the table
NewId(table) == IF table = {} THEN 1 ELSE Max({r.id : r \in table}) + 1

\* first row of a result list (results[0])
FirstRow(rows) == CHOOSE r \in rows : TRUE

----------------------------------------------------------------------------
(* StockPrice (backend/models/database.py) *)

\* price tolerance of create_or_update: 0.01, in thousandths
PriceTol == 10

\* Pairs of PriceVals exactly 0.01 apart for which the binary64 evaluation
\* of abs(float(a) - float(b)) is above the binary64 value of 0.01:
\* abs(100.0 - 100.01) = 0.010000000000005116, abs(100.01 - 100.02) is below.
Binary64AboveCent == {{100000, 100010}}

\* abs(float(existing_data['price']) - float(price)) > 0.01
PriceDiffers(existing_price, price) ==
    \/ Abs(existing_price - price) > PriceTol
    \/ /\ Abs(existing_price - price) = PriceTol
       /\ {existing_price, price} \in Binary64AboveCent

\* price_date defaults to datetime.now().date()
DateOrToday(d, td) == IF d = NULL THEN td ELSE d

\* SELECT ... FROM stock_prices WHERE company_id = ? AND price_date = ?
PriceRowsAt(sp, company_id, price_date) ==
    {r \in sp : r.company_id = company_id /\ r.price_date = price_date}

PriceRow(company_id, price_date, price, volume) ==
    [company_id |-> company_id, price_date |-> price_date,
     price |-> price, volume |-> volume]

\* The rows of stock_prices an inserted row r conflicts with: the table is
\* created by database/schema.sql with the natural key (company_id,
\* price_date) as its uniqueness constraint.
StockPricesConflict(sp, r) ==
    {e \in sp : e.company_id = r.company_id /\ e.price_date = r.price_date}

\* StockPrice.create: INSERT OR REPLACE; the conflicting row is deleted and
\* the new row is inserted.
StockPriceCreate(sp, company_id, price, price_date, volume, td) ==
    LET r == PriceRow(company_id, DateOrToday(price_date, td), price, volume)
    IN  (sp \ StockPricesConflict(sp, r)) \cup {r}

\* An upsert: what create_or_update would be if it wrote on a difference.
StockPriceUpsert(sp, company_id, price, price_date, volume, td) ==
    LET d == DateOrToday(price_date, td)
        existing == PriceRowsAt(sp, company_id, d)
    IN  IF existing # {}
        THEN LET e == FirstRow(existing)
             IN  IF PriceDiffers(e.price, price) \/ e.volume # volume
                 THEN [status |-> "warning",
                       table |-> (sp \ {e}) \cup {PriceRow(company_id, d, price, volume)}]
                 ELSE [status |-> "unchanged", table |-> sp]
        ELSE [status |-> "created",
              table |-> sp \cup {PriceRow(company_id, d, price, volume)}]

\* create_or_update looking the row up under the date as given, without
\* the default.
StockPriceCreateOrUpdateRawDate(sp, company_id, price, price_date, volume, td) ==
    LET d == DateOrToday(price_date, td)
        existing == PriceRowsAt(sp, company_id, price_date)
    IN  IF existing # {}
        THEN LET e == FirstRow(existing)
             IN  IF PriceDiffers(e.price, price) \/ e.volume # volume
                 THEN [status |-> "warning", table |-> sp]
                 ELSE [status |-> "unchanged", table |-> sp]
        ELSE [status |-> "created",
              table |-> sp \cup {PriceRow(company_id, d, price, volume)}]

\* A reconcile that accepts a volume up to 1 away from the stored one.
StockPriceCreateOrUpdateNearVolume(sp, company_id, price, price_date, volume, td) ==
    LET d == DateOrToday(price_date, td)
        existing == PriceRowsAt(sp, company_id, d)
    IN  IF existing # {}
        THEN LET e == FirstRow(existing)
             IN  IF PriceDiffers(e.price, price) \/ Abs(e.volume - volume) > 1
                 THEN [status |-> "warning", table |-> sp]
                 ELSE [status |-> "unchanged", table |-> sp]
        ELSE [status |-> "created",
              table |-> sp \cup {PriceRow(company_id, d, price, volume)}]

\* StockPrice.create_or_update: the result dict's status, and the table
\* after the call.
StockPriceCreateOrUpdate(sp, company_id, price, price_date, volume, td) ==
    LET d == DateOrToday(price_date, td)
        existing == PriceRowsAt(sp, company_id, d)
    IN  IF existing # {}
        THEN LET e == FirstRow(existing)
             IN  IF PriceDiffers(e.price, price) \/ e.volume # volume
                 THEN [status |-> "warning", table |-> sp]
                 ELSE [status |-> "unchanged", table |-> sp]
        ELSE [status |-> "created",
              table |-> sp \cup {PriceRow(company_id, d, price, volume)}]

\* An update that writes only values a reconcile would accept.
StockPriceForceUpdateLazy(sp, company_id, price, price_date, volume) ==
    [rowcount |-> Cardinality(PriceRowsAt(sp, company_id, price_date)),
     table |-> {IF r \in PriceRowsAt(sp, company_id, price_date)
                   /\ ~(PriceDiffers(r.price, price) \/ r.volume # volume)
                THEN [r EXCEPT !.price = price, !.volume = volume]
                ELSE r : r \in sp}]

\* StockPrice.force_update: UPDATE ... SET price, volume WHERE key; returns
\* the number of rows updated.
StockPriceForceUpdate(sp, company_id, price, price_date, volume) ==
    [rowcount |-> Cardinality(PriceRowsAt(sp, company_id, price_date)),
     table |-> {IF r \in PriceRowsAt(sp, company_id, price_date)
                THEN [r EXCEPT !.price = price, !.volume = volume]
                ELSE r : r \in sp}]

----------------------------------------------------------------------------
(* FinancialMetrics (backend/models/database.py) *)

FMFields == {"pbr", "per", "equity_ratio", "roe", "roa", "net_sales", "operating_profit"}

\* ratio tolerance of create_or_update: 0.0001, in units of 0.00005
RatioTol == 2

\* abs(float(existing_val) - float(new_val)) > 0.0001
\* (no two values of RatioVals are exactly 0.0001 apart)
RatioDiffers(existing_val, new_val) == Abs(existing_val - new_val) > RatioTol

\* The keyword arguments **metrics: the names given and their values.
\* metrics.get(f) is None for a name that was not given.
MetricsGet(metrics, f) == IF f \in metrics.present THEN metrics.vals[f] ELSE NULL

NoVals == [f \in FMFields |-> NULL]
NoMetrics == [present |-> {}, vals |-> NoVals]

FMRowsAt(fm, company_id, report_date) ==
    {r \in fm : r.company_id = company_id /\ r.report_date = report_date}

FMRow(company_id, report_date, metrics) ==
    [company_id |-> company_id, report_date |-> report_date,
     vals |-> [f \in FMFields |-> MetricsGet(metrics, f)]]

\* BaseModel._has_data_difference: only the fields of new_data are compared.
HasDataDifference(e, new_data) ==
    \E f \in new_data.present :
        LET existing_value == e.vals[f]
            new_value == new_data.vals[f]
        IN  IF existing_value = NULL /\ new_value = NULL THEN FALSE
            ELSE IF existing_value = NULL \/ new_value = NULL THEN TRUE
            ELSE RatioDiffers(existing_value, new_value)

\* has_difference of FinancialMetrics.create_or_update: every one of the
\* seven columns is compared with metrics.get(column).
FMHasDifference(e, metrics) ==
    \E f \in FMFields :
        LET existing_val == e.vals[f]
            new_val == MetricsGet(metrics, f)
        IN  IF existing_val # NULL /\ new_val # NULL
            THEN RatioDiffers(existing_val, new_val)
            ELSE existing_val # new_val

\* The rows of financial_metrics an inserted row r conflicts with: the
\* natural key (company_id, report_date) of database/schema.sql.
FinancialMetricsConflict(fm, r) ==
    {e \in fm : e.company_id = r.company_id /\ e.report_date = r.report_date}

\* FinancialMetrics.create: INSERT OR REPLACE
FinancialMetricsCreate(fm, company_id, report_date, metrics, td) ==
    LET r == FMRow(company_id, DateOrToday(report_date, td), metrics)
    IN  (fm \ FinancialMetricsConflict(fm, r)) \cup {r}

\* FinancialMetrics.create_or_update
FinancialMetricsCreateOrUpdate(fm, company_id, report_date, metrics, td) ==
    LET d == DateOrToday(report_date, td)
        existing == FMRowsAt(fm, company_id, d)
    IN  IF existing # {}
        THEN LET e == FirstRow(existing)
             IN  IF FMHasDifference(e, metrics)
                 THEN [status |-> "warning", table |-> fm]
                 ELSE [status |-> "unchanged", table |-> fm]
        ELSE [status |-> "created",
              table |-> fm \cup {FMRow(company_id, d, metrics)}]

\* An update that inserts the row when none matches.
FinancialMetricsForceUpsert(fm, company_id, report_date, metrics) ==
    IF FMRowsAt(fm, company_id, report_date) = {}
    THEN [rowcount |-> 1,
          table |-> fm \cup {FMRow(company_id, report_date, metrics)}]
    ELSE [rowcount |-> Cardinality(FMRowsAt(fm, company_id, report_date)),
          table |-> {IF r \in FMRowsAt(fm, company_id, report_date)
                     THEN [r EXCEPT !.vals = [f \in FMFields |-> MetricsGet(metrics, f)]]
                     ELSE r : r \in fm}]

\* FinancialMetrics.force_update: all seven columns are set to metrics.get(column)
FinancialMetricsForceUpdate(fm, company_id, report_date, metrics) ==
    [rowcount |-> Cardinality(FMRowsAt(fm, company_id, report_date)),
     table |-> {IF r \in FMRowsAt(fm, company_id, report_date)
                THEN [r EXCEPT !.vals = [f \in FMFields |-> MetricsGet(metrics, f)]]
                ELSE r : r \in fm}]

----------------------------------------------------------------------------
(* PriceStatistics (backend/models/database.py) *)

\* period_value of the all_time statistic ('all')
AllPeriod == 0

RECURSIVE SumPrices(_)
SumPrices(rows) ==
    IF rows = {} THEN 0
    ELSE LET r == CHOOSE x \in rows : TRUE
         IN  r.price + SumPrices(rows \ {r})

RECURSIVE Gcd(_, _)
Gcd(a, b) == IF b = 0 THEN a ELSE Gcd(b, a % b)

\* AVG(price) as the fraction sum / count in lowest terms
AvgPrice(rows) ==
    LET s == SumPrices(rows)
        n == Cardinality(rows)
        g == Gcd(s, n)
    IN  [num |-> s \div g, den |-> n \div g]

\* the date filter of update_statistics
InPeriod(price_date, period_type, period_value) ==
    IF period_type = "monthly" THEN price_date \div 100 = period_value
    ELSE IF period_type = "yearly" THEN price_date \div 10000 = period_value
    ELSE TRUE

\* The rows of price_statistics an inserted row conflicts with: the natural
\* key (company_id, period_type, period_value) of database/schema.sql.
PriceStatisticsConflict(ps, company_id, period_type, period_value) ==
    {q \in ps : q.company_id = company_id /\ q.period_type = period_type
                 /\ q.period_value = period_value}

\* An aggregation that writes the NULL aggregates of a period without
\* prices.
UpdateStatisticsUnguarded(ps, sp, company_id, period_type, period_value) ==
    LET rows == {r \in sp : r.company_id = company_id
                            /\ InPeriod(r.price_date, period_type, period_value)}
    IN  IF rows = {}
        THEN (ps \ PriceStatisticsConflict(ps, company_id, period_type, period_value))
             \cup {[company_id |-> company_id, period_type |-> period_type,
                    period_value |-> period_value,
                    min_price |-> NULL, max_price |-> NULL,
                    avg_price |-> [num |-> NULL, den |-> 1]]}
        ELSE IF Min({r.price : r \in rows}) = 0
        THEN ps
        ELSE (ps \ PriceStatisticsConflict(ps, company_id, period_type, period_value))
             \cup {[company_id |-> company_id, period_type |-> period_type,
                    period_value |-> period_value,
                    min_price |-> Min({r.price : r \in rows}),
                    max_price |-> Max({r.price : r \in rows}),
                    avg_price |-> AvgPrice(rows)]}

\* PriceStatistics.update_statistics with its SELECT and its INSERT OR
\* REPLACE run as one; a call whose SELECT has no result runs the SELECT
\* only and leaves the table as it is
UpdateStatistics(ps, sp, company_id, period_type, period_value) ==
    LET rows == {r \in sp : r.company_id = company_id
                            /\ InPeriod(r.price_date, period_type, period_value)}
    IN  IF rows = {} \/ Min({r.price : r \in rows}) = 0
        THEN ps
        ELSE (ps \ PriceStatisticsConflict(ps, company_id, period_type, period_value))
             \cup {[company_id |-> company_id, period_type |-> period_type,
                    period_value |-> period_value,
                    min_price |-> Min({r.price : r \in rows}),
                    max_price |-> Max({r.price : r \in rows}),
                    avg_price |-> AvgPrice(rows)]}

\* The SELECT MIN(price), MAX(price), AVG(price) of update_statistics and
\* the test of its result: the row to write, NoStatistic when the method
\* returns 0 without writing.
NoStatistic == [company_id |-> NULL]

SelectStatistics(sp, company_id, period_type, period_value) ==
    LET rows == {r \in sp : r.company_id = company_id
                            /\ InPeriod(r.price_date, period_type, period_value)}
    IN  IF rows = {} \/ Min({r.price : r \in rows}) = 0
        THEN NoStatistic
        ELSE [company_id |-> company_id, period_type |-> period_type,
              period_value |-> period_value,
              min_price |-> Min({r.price : r \in rows}),
              max_price |-> Max({r.price : r \in rows}),
              avg_price |-> AvgPrice(rows)]

\* The INSERT OR REPLACE INTO price_statistics of update_statistics
WriteStatistics(ps, s) ==
    (ps \ PriceStatisticsConflict(ps, s.company_id, s.period_type, s.period_value))
    \cup {s}

----------------------------------------------------------------------------
(* Company (backend/models/database.py) *)

Symbols == {"7203", "9999"}

CompanyBySymbol(cs, symbol) == {c \in cs : c.symbol = symbol}

----------------------------------------------------------------------------
(* The last operation and its outcome:                                     *)
(*   op        the operation                                               *)
(*   status    its result ('created', 'unchanged', 'warning' of a          *)
(*             reconcile; 'updated', 'not_found' of a forced update)       *)
(*   rowcount  the number of rows a forced update reported                 *)
(*   pre       the status a reconcile of the same key and fields has in    *)
(*             the state before the operation                              *)
(*   row       the key and fields the operation was called with, as a row  *)
(*   repeat    whether the operation is a reconcile called with the key    *)
(*             and fields of the reconcile before it, which created a row  *)

NoRow == [company_id |-> NULL]

Last(op, status, rowcount, pre, row, repeat) ==
    [op |-> op, status |-> status, rowcount |-> rowcount, pre |-> pre,
     row |-> row, repeat |-> repeat]

NoLast == Last("none", "none", 0, "none", NoRow, FALSE)

----------------------------------------------------------------------------
(* Input domains of the store operations *)

FMInputFields == {"pbr", "roe"}

\* keyword arguments naming at least one of FMInputFields; pbr is given as
\* 1.0, roe as any of RatioVals
FMCands ==
    {[present |-> S,
      vals |-> [f \in FMFields |-> IF f \notin S THEN NULL
                                   ELSE IF f = "pbr" THEN 20000 ELSE r]] :
        S \in (SUBSET FMInputFields) \ {{}}, r \in RatioVals}

\* request bodies of POST /api/companies/register
\* a name or a symbol "" is one the body does not carry
RegisterPayloads ==
    [symbol : Symbols, name : {"n"}, price : {NULL, 100020}, price_date : {NULL},
     volume : {0},
     metrics : {NoMetrics,
                [present |-> {"roe"}, vals |-> [NoVals EXCEPT !["roe"] = 20004]]},
     report_date : {NULL}]
    \cup [symbol : {"9999"}, name : {""}, price : {100020}, price_date : {NULL},
          volume : {0}, metrics : {NoMetrics}, report_date : {NULL}]
    \cup [symbol : {""}, name : {"n"}, price : {NULL}, price_date : {NULL},
          volume : {0}, metrics : {NoMetrics}, report_date : {NULL}]

\* longest list of a request body of POST /api/import
MaxImport == 1

ImportPriceRows ==
    {[company_id |-> 1, price |-> 100020, price_date |-> 20240105, volume |-> 0],
     [company_id |-> 2, price |-> 100000, price_date |-> 20240105, volume |-> 0]}
ImportFMRows ==
    {[company_id |-> 1, report_date |-> 20240105,
      metrics |-> [present |-> {"pbr"}, vals |-> [NoVals EXCEPT !["pbr"] = 20000]]]}

SeqsUpTo(S, n) == UNION {[1..k -> S] : k \in 0..n}

\* the body {}: no key, which the lists of the model read as empty lists
EmptyBody ==
    [empty |-> TRUE, companies |-> <<>>, stock_prices |-> <<>>,
     financial_metrics |-> <<>>]

\* request bodies of POST /api/import and contents of the files of POST
\* /api/files/load-and-import
ImportPayloads ==
    [empty : {FALSE},
     companies : SeqsUpTo({"9999"}, 1),
     stock_prices : SeqsUpTo(ImportPriceRows, MaxImport),
     financial_metrics : SeqsUpTo(ImportFMRows, 1)]
    \cup {EmptyBody}

----------------------------------------------------------------------------
(* Requests to the store.  Every call of execute_query, execute_insert and *)
(* execute_update opens a connection, runs one statement and commits: a    *)
(* statement is one step, and the statements of the requests the server    *)
(* handles at the same time interleave.  calls[p] is the request process p *)
(* is handling:                                                            *)
(*   op          the route or method                                       *)
(*   pc          the statement it runs next                                *)
(*   row         the row a reconcile or a forced update was called with    *)
(*   data        the request body of a registration                        *)
(*   company_id  the company its statements are about                      *)
(*   periods     the aggregations update_statistics has still to run       *)
(*   stats       the aggregate the SELECT of update_statistics returned    *)
(*   rest        the items an import has still to write                    *)

Procs == {"p1", "p2"}

\* requests begun in one behaviour
MaxCalls == 3

\* POST /api/import and POST /api/files/load-and-import/<filename>
ImportRoutes == {"import", "load_and_import"}

NoCall ==
    [op |-> "none", pc |-> "idle", row |-> NoRow, data |-> NoRow,
     company_id |-> NULL, periods |-> <<>>, stats |-> NoStatistic, rest |-> <<>>]

IdleCalls == calls = [p \in Procs |-> NoCall] /\ callCount = 0

\* process p takes a request
Accept(p) ==
    /\ calls[p].pc = "idle"
    /\ callCount < MaxCalls
    /\ callCount' = callCount + 1

\* INSERT INTO stock_prices: sqlite3.IntegrityError on a row of the key
StockPriceInsert(sp, r) ==
    IF StockPricesConflict(sp, r) # {}
    THEN [raised |-> TRUE, table |-> sp]
    ELSE [raised |-> FALSE, table |-> sp \cup {r}]

\* the fields given by a call that supplied the row r of financial_metrics
GivenMetrics(r) == [present |-> {f \in FMFields : r.vals[f] # NULL}, vals |-> r.vals]

\* INSERT INTO financial_metrics: sqlite3.IntegrityError on a row of the key
FinancialMetricsInsert(fm, r) ==
    IF FinancialMetricsConflict(fm, r) # {}
    THEN [raised |-> TRUE, table |-> fm]
    ELSE [raised |-> FALSE, table |-> fm \cup {r}]

\* INSERT INTO companies: the column symbol is unique, the id is the next
\* rowid
CompanyInsert(cs, symbol, name) ==
    IF CompanyBySymbol(cs, symbol) # {}
    THEN [raised |-> TRUE, table |-> cs, id |-> NULL]
    ELSE [raised |-> FALSE,
          table |-> cs \cup {[id |-> NewId(cs), symbol |-> symbol,
                              name |-> name, sector |-> "", market |-> ""]},
          id |-> NewId(cs)]

\* UPDATE companies SET name = ? WHERE id = ?
CompanyRename(cs, company_id, name) ==
    {IF c.id = company_id THEN [c EXCEPT !.name = name] ELSE c : c \in cs}

StatKey(company_id, period_type, period_value) ==
    [company_id |-> company_id, period_type |-> period_type,
     period_value |-> period_value]

\* the three aggregations run after a price was written on the date d
StatPeriods(d) ==
    <<[period_type |-> "monthly", period_value |-> d \div 100],
      [period_type |-> "yearly", period_value |-> d \div 10000],
      [period_type |-> "all_time", period_value |-> AllPeriod]>>

\* what a request does when its aggregations are done
AfterStatistics(c) ==
    IF c.op = "register" /\ c.data.metrics.present # {}
    THEN [c EXCEPT !.pc = "fm_create", !.periods = <<>>, !.stats = NoStatistic]
    ELSE NoCall

\* the request after one update_statistics call returned
NextStatistic(c) ==
    IF Len(c.periods) > 1
    THEN [c EXCEPT !.pc = "stat_select", !.periods = Tail(c.periods),
                   !.stats = NoStatistic]
    ELSE AfterStatistics(c)

\* POST /api/data/stock_price/safe up to the SELECT of create_or_update:
\* with a row of the key the method returns 'warning' or 'unchanged' and the
\* route answers, without a row ('absent') the INSERT follows; last'.repeat
\* tells that the call repeats the reconcile that has just created a row.
AddStockPriceSafe(p, company_id, price, price_date, volume) ==
    LET d == DateOrToday(price_date, today)
        row == PriceRow(company_id, d, price, volume)
        res == StockPriceCreateOrUpdate(stock_prices, company_id, price,
                                        price_date, volume, today)
        repeat == /\ last.op = "price_insert"
                  /\ last.status = "created"
                  /\ last.row = row
    IN  /\ Accept(p)
        /\ IF res.status = "created"
           THEN /\ calls' = [calls EXCEPT ![p] =
                                [NoCall EXCEPT !.op = "price_safe",
                                               !.pc = "insert", !.row = row]]
                /\ UNCHANGED stock_prices
                /\ last' = Last("price_reconcile", "absent", 0, res.status,
                                row, repeat)
           ELSE /\ UNCHANGED calls
                /\ stock_prices' = res.table
                /\ last' = Last("price_reconcile", res.status, 0, res.status,
                                row, repeat)
        /\ UNCHANGED <<companies, financial_metrics, price_statistics, today>>
        /\ UNCHANGED <<tokenVars, connVars, batchVars, fetchVars>>

\* The INSERT of create_or_update.  With a row of the key committed since
\* the SELECT it raises and the route answers 500; otherwise the method
\* returns 'created' and the route goes on to the statistics of the month
\* and the year of the observation's date.
PriceInsert(p) ==
    LET c == calls[p]
        ins == StockPriceInsert(stock_prices, c.row)
        pre == StockPriceCreateOrUpdate(stock_prices, c.row.company_id,
                                        c.row.price, c.row.price_date,
                                        c.row.volume, today).status
    IN  /\ c.op = "price_safe" /\ c.pc = "insert"
        /\ stock_prices' = ins.table
        /\ IF ins.raised
           THEN /\ calls' = [calls EXCEPT ![p] = NoCall]
                /\ last' = Last("price_insert", "raised", 0, pre, c.row, FALSE)
           ELSE /\ calls' = [calls EXCEPT ![p] =
                                [c EXCEPT !.pc = "stat_select",
                                          !.company_id = c.row.company_id,
                                          !.periods = StatPeriods(c.row.price_date)]]
                /\ last' = Last("price_insert", "created", 0, pre, c.row, FALSE)
        /\ UNCHANGED <<companies, financial_metrics, price_statistics, today>>
        /\ UNCHANGED <<tokenVars, connVars, batchVars, fetchVars, callCount>>

\* update_statistics up to its SELECT MIN, MAX, AVG.  Without a result the
\* method returns 0; last'.pre is the request the call belongs to.
StatSelect(p) ==
    LET c == calls[p]
        k == Head(c.periods)
        s == SelectStatistics(stock_prices, c.company_id, k.period_type,
                              k.period_value)
    IN  /\ c.pc = "stat_select"
        /\ IF s = NoStatistic
           THEN /\ price_statistics' =
                      UpdateStatistics(price_statistics, stock_prices,
                                       c.company_id, k.period_type,
                                       k.period_value)
                /\ calls' = [calls EXCEPT ![p] = NextStatistic(c)]
                /\ last' = Last("aggregate", "none", 0, c.op,
                                StatKey(c.company_id, k.period_type,
                                        k.period_value), FALSE)
           ELSE /\ UNCHANGED price_statistics
                /\ calls' = [calls EXCEPT ![p] =
                                [c EXCEPT !.pc = "stat_write", !.stats = s]]
                /\ last' = Last("stat_select", "found", 0, c.op,
                                StatKey(c.company_id, k.period_type,
                                        k.period_value), FALSE)
        /\ UNCHANGED <<companies, stock_prices, financial_metrics, today>>
        /\ UNCHANGED <<tokenVars, connVars, batchVars, fetchVars, callCount>>

\* The INSERT OR REPLACE of update_statistics, with the aggregate its SELECT
\* returned; rowcount is the value the method returns.
StatWrite(p) ==
    LET c == calls[p]
    IN  /\ c.pc = "stat_write"
        /\ price_statistics' = WriteStatistics(price_statistics, c.stats)
        /\ calls' = [calls EXCEPT ![p] = NextStatistic(c)]
        /\ last' = Last("aggregate", "written", 1, c.op,
                        StatKey(c.stats.company_id, c.stats.period_type,
                                c.stats.period_value), FALSE)
        /\ UNCHANGED <<companies, stock_prices, financial_metrics, today>>
        /\ UNCHANGED <<tokenVars, connVars, batchVars, fetchVars, callCount>>

\* price_statistics_model.update_statistics(company_id, period_type,
\* period_value) called by itself, up to its SELECT
Aggregate(p, company_id, period_type, period_value) ==
    LET s == SelectStatistics(stock_prices, company_id, period_type,
                              period_value)
    IN  /\ Accept(p)
        /\ IF s = NoStatistic
           THEN /\ price_statistics' =
                      UpdateStatistics(price_statistics, stock_prices,
                                       company_id, period_type, period_value)
                /\ UNCHANGED calls
                /\ last' = Last("aggregate", "none", 0, "aggregate",
                                StatKey(company_id, period_type, period_value),
                                FALSE)
           ELSE /\ UNCHANGED price_statistics
                /\ calls' = [calls EXCEPT ![p] =
                                [NoCall EXCEPT
                                    !.op = "aggregate", !.pc = "stat_write",
                                    !.company_id = company_id,
                                    !.periods = <<[period_type |-> period_type,
                                                   period_value |-> period_value]>>,
                                    !.stats = s]]
                /\ last' = Last("stat_select", "found", 0, "aggregate",
                                StatKey(company_id, period_type, period_value),
                                FALSE)
        /\ UNCHANGED <<companies, stock_prices, financial_metrics, today>>
        /\ UNCHANGED <<tokenVars, connVars, batchVars, fetchVars>>

\* POST /api/data/financial_metrics/safe up to the SELECT of
\* create_or_update
AddFinancialMetricsSafe(p, company_id, report_date, metrics) ==
    LET d == DateOrToday(report_date, today)
        row == FMRow(company_id, d, metrics)
        res == FinancialMetricsCreateOrUpdate(financial_metrics, company_id,
                                              report_date, metrics, today)
        repeat == /\ last.op = "fm_insert"
                  /\ last.status = "created"
                  /\ last.row = row
    IN  /\ Accept(p)
        /\ IF res.status = "created"
           THEN /\ calls' = [calls EXCEPT ![p] =
                                [NoCall EXCEPT !.op = "fm_safe",
                                               !.pc = "insert", !.row = row]]
                /\ UNCHANGED financial_metrics
                /\ last' = Last("fm_reconcile", "absent", 0, res.status, row,
                                repeat)
           ELSE /\ UNCHANGED calls
                /\ financial_metrics' = res.table
                /\ last' = Last("fm_reconcile", res.status, 0, res.status, row,
                                repeat)
        /\ UNCHANGED <<companies, stock_prices, price_statistics, today>>
        /\ UNCHANGED <<tokenVars, connVars, batchVars, fetchVars>>

\* The INSERT of FinancialMetrics.create_or_update
FMInsert(p) ==
    LET c == calls[p]
        ins == FinancialMetricsInsert(financial_metrics, c.row)
        pre == FinancialMetricsCreateOrUpdate(financial_metrics, c.row.company_id,
                                              c.row.report_date,
                                              GivenMetrics(c.row), today).status
    IN  /\ c.op = "fm_safe" /\ c.pc = "insert"
        /\ financial_metrics' = ins.table
        /\ calls' = [calls EXCEPT ![p] = NoCall]
        /\ last' = Last("fm_insert",
                        IF ins.raised THEN "raised" ELSE "created", 0, pre,
                        c.row, FALSE)
        /\ UNCHANGED <<companies, stock_prices, price_statistics, today>>
        /\ UNCHANGED <<tokenVars, connVars, batchVars, fetchVars, callCount>>

\* PUT /api/data/force_update/stock_price up to get_conflicting_data:
\* without a row of the key the route answers 404
ForceUpdateStockPrice(p, company_id, price, price_date, volume) ==
    LET existing == PriceRowsAt(stock_prices, company_id, price_date)
        row == PriceRow(company_id, price_date, price, volume)
        pre == StockPriceCreateOrUpdate(stock_prices, company_id, price,
                                        price_date, volume, today).status
    IN  /\ Accept(p)
        /\ IF existing = {}
           THEN /\ UNCHANGED calls
                /\ last' = Last("price_force_update", "not_found", 0, pre, row,
                                FALSE)
           ELSE /\ calls' = [calls EXCEPT ![p] =
                                [NoCall EXCEPT !.op = "force_price",
                                               !.pc = "update", !.row = row]]
                /\ last' = Last("price_force_check", "found", 0, pre, row, FALSE)
        /\ UNCHANGED storeVars
        /\ UNCHANGED <<tokenVars, connVars, batchVars, fetchVars>>

\* The UPDATE of stock_price_model.force_update: the route answers success
\* with rows_updated, the number of rows the statement changed.
ForceUpdateWrite(p) ==
    LET c == calls[p]
        res == StockPriceForceUpdate(stock_prices, c.row.company_id, c.row.price,
                                     c.row.price_date, c.row.volume)
        pre == StockPriceCreateOrUpdate(stock_prices, c.row.company_id,
                                        c.row.price, c.row.price_date,
                                        c.row.volume, today).status
    IN  /\ c.op = "force_price" /\ c.pc = "update"
        /\ stock_prices' = res.table
        /\ calls' = [calls EXCEPT ![p] = NoCall]
        /\ last' = Last("price_force_update", "updated", res.rowcount, pre,
                        c.row, FALSE)
        /\ UNCHANGED <<companies, financial_metrics, price_statistics, today>>
        /\ UNCHANGED <<tokenVars, connVars, batchVars, fetchVars, callCount>>

\* financial_metrics_model.force_update(company_id, report_date, **metrics):
\* one UPDATE
FMForceUpdate(company_id, report_date, metrics) ==
    LET res == FinancialMetricsForceUpdate(financial_metrics, company_id,
                                           report_date, metrics)
        pre == FinancialMetricsCreateOrUpdate(financial_metrics, company_id,
                                              report_date, metrics, today).status
    IN  /\ callCount < MaxCalls
        /\ callCount' = callCount + 1
        /\ financial_metrics' = res.table
        /\ last' = Last("fm_force_update",
                        IF res.rowcount = 0 THEN "not_found" ELSE "updated",
                        res.rowcount, pre, FMRow(company_id, report_date, metrics),
                        FALSE)
        /\ UNCHANGED <<companies, stock_prices, price_statistics, today>>
        /\ UNCHANGED <<tokenVars, connVars, batchVars, fetchVars, calls>>

\* the statement of a registration that follows the write of the company
AfterCompany(c) ==
    IF c.data.price # NULL THEN [c EXCEPT !.pc = "price_create"]
    ELSE IF c.data.metrics.present # {} THEN [c EXCEPT !.pc = "fm_create"]
    ELSE NoCall

\* the last operation of a step of a registration that leaves the request
\* as c: 'registered' when the route has answered
RegisterStep(c, step) ==
    Last("register", IF c = NoCall THEN "registered" ELSE step, 0, "none",
         NoRow, FALSE)

\* POST /api/companies/register up to get_by_symbol (the
\* technical_indicators table is outside the model); a body without a
\* symbol or without a name is answered 400
RegisterCompany(p, data) ==
    LET existing_company == CompanyBySymbol(companies, data.symbol)
    IN  /\ Accept(p)
        /\ IF data.symbol = "" \/ data.name = ""
           THEN /\ UNCHANGED calls
                /\ last' = Last("register", "bad_request", 0, "none", NoRow, FALSE)
           ELSE /\ calls' = [calls EXCEPT ![p] =
                                [NoCall EXCEPT
                                    !.op = "register", !.data = data,
                                    !.pc = IF existing_company # {}
                                           THEN "company_update"
                                           ELSE "company_create",
                                    !.company_id =
                                        IF existing_company # {}
                                        THEN FirstRow(existing_company).id
                                        ELSE NULL]]
                /\ last' = Last("register", "lookup", 0, "none", NoRow, FALSE)
        /\ UNCHANGED storeVars
        /\ UNCHANGED <<tokenVars, connVars, batchVars, fetchVars>>

\* company_model.update(company_id, name=...) of a registration
RegisterCompanyUpdate(p) ==
    LET c == calls[p]
    IN  /\ c.op = "register" /\ c.pc = "company_update"
        /\ companies' = CompanyRename(companies, c.company_id, c.data.name)
        /\ calls' = [calls EXCEPT ![p] = AfterCompany(c)]
        /\ last' = RegisterStep(AfterCompany(c), "company")
        /\ UNCHANGED <<stock_prices, financial_metrics, price_statistics, today>>
        /\ UNCHANGED <<tokenVars, connVars, batchVars, fetchVars, callCount>>

\* company_model.create of a registration: with the symbol registered since
\* get_by_symbol the INSERT raises and the route answers 500
RegisterCompanyCreate(p) ==
    LET c == calls[p]
        ins == CompanyInsert(companies, c.data.symbol, c.data.name)
        next == AfterCompany([c EXCEPT !.company_id = ins.id])
    IN  /\ c.op = "register" /\ c.pc = "company_create"
        /\ companies' = ins.table
        /\ IF ins.raised
           THEN /\ calls' = [calls EXCEPT ![p] = NoCall]
                /\ last' = Last("register", "raised", 0, "none", NoRow, FALSE)
           ELSE /\ calls' = [calls EXCEPT ![p] = next]
                /\ last' = RegisterStep(next, "company")
        /\ UNCHANGED <<stock_prices, financial_metrics, price_statistics, today>>
        /\ UNCHANGED <<tokenVars, connVars, batchVars, fetchVars, callCount>>

\* stock_price_model.create of a registration (INSERT OR REPLACE); the
\* statistics that follow are those of the current month and year
RegisterPrice(p) ==
    LET c == calls[p]
    IN  /\ c.op = "register" /\ c.pc = "price_create"
        /\ stock_prices' = StockPriceCreate(stock_prices, c.company_id,
                                            c.data.price, c.data.price_date,
                                            c.data.volume, today)
        /\ calls' = [calls EXCEPT ![p] =
                        [c EXCEPT !.pc = "stat_select",
                                  !.periods = StatPeriods(today)]]
        /\ last' = Last("register", "price", 0, "none", NoRow, FALSE)
        /\ UNCHANGED <<companies, financial_metrics, price_statistics, today>>
        /\ UNCHANGED <<tokenVars, connVars, batchVars, fetchVars, callCount>>

\* financial_metrics_model.create of a registration (INSERT OR REPLACE)
RegisterMetrics(p) ==
    LET c == calls[p]
    IN  /\ c.op = "register" /\ c.pc = "fm_create"
        /\ financial_metrics' =
              FinancialMetricsCreate(financial_metrics, c.company_id,
                                     c.data.report_date, c.data.metrics, today)
        /\ calls' = [calls EXCEPT ![p] = NoCall]
        /\ last' = Last("register", "registered", 0, "none", NoRow, FALSE)
        /\ UNCHANGED <<companies, stock_prices, price_statistics, today>>
        /\ UNCHANGED <<tokenVars, connVars, batchVars, fetchVars, callCount>>

\* the items of the lists of an import body, in the order they are written
ImportItems(data) ==
    [i \in 1..Len(data.companies) |->
        [table |-> "companies", item |-> data.companies[i]]]
    \o [i \in 1..Len(data.stock_prices) |->
        [table |-> "stock_prices", item |-> data.stock_prices[i]]]
    \o [i \in 1..Len(data.financial_metrics) |->
        [table |-> "financial_metrics", item |-> data.financial_metrics[i]]]

\* the request after the item at the head of rest was written
NextItem(c) ==
    IF Len(c.rest) > 1 THEN [c EXCEPT !.pc = "item", !.rest = Tail(c.rest)]
    ELSE NoCall

\* the last operation of a step of an import that leaves the request as c
ImportStep(c, step) ==
    Last("import", IF c = NoCall THEN "imported" ELSE step, 0, "none", NoRow,
         FALSE)

\* POST /api/import (route "import") and POST
\* /api/files/load-and-import/<filename> (route "load_and_import", data the
\* content of the file) before the first item: an empty body of an import
\* is answered 400
ImportData(p, route, data) ==
    LET c == [NoCall EXCEPT !.op = "import", !.pc = "item",
                            !.rest = ImportItems(data)]
    IN  /\ Accept(p)
        /\ IF route = "import" /\ data.empty
           THEN /\ UNCHANGED calls
                /\ last' = Last("import", "bad_request", 0, "none", NoRow, FALSE)
           ELSE IF c.rest = <<>>
           THEN /\ UNCHANGED calls
                /\ last' = ImportStep(NoCall, "begin")
           ELSE /\ calls' = [calls EXCEPT ![p] = c]
                /\ last' = ImportStep(c, "begin")
        /\ UNCHANGED storeVars
        /\ UNCHANGED <<tokenVars, connVars, batchVars, fetchVars>>

\* company_model.create of an import item; on the exception of a registered
\* symbol the handler looks the company up
ImportCompany(p) ==
    LET c == calls[p]
        ins == CompanyInsert(companies, Head(c.rest).item, "n")
    IN  /\ c.op = "import" /\ c.pc = "item"
        /\ Head(c.rest).table = "companies"
        /\ companies' = ins.table
        /\ calls' = [calls EXCEPT ![p] =
                        IF ins.raised THEN [c EXCEPT !.pc = "company_lookup"]
                        ELSE NextItem(c)]
        /\ last' = ImportStep(IF ins.raised THEN c ELSE NextItem(c), "company")
        /\ UNCHANGED <<stock_prices, financial_metrics, price_statistics, today>>
        /\ UNCHANGED <<tokenVars, connVars, batchVars, fetchVars, callCount>>

\* company_model.get_by_symbol of an import item
ImportCompanyLookup(p) ==
    LET c == calls[p]
        existing == CompanyBySymbol(companies, Head(c.rest).item)
    IN  /\ c.op = "import" /\ c.pc = "company_lookup"
        /\ calls' = [calls EXCEPT ![p] =
                        IF existing # {}
                        THEN [c EXCEPT !.pc = "company_update",
                                       !.company_id = FirstRow(existing).id]
                        ELSE NextItem(c)]
        /\ last' = ImportStep(IF existing # {} THEN c ELSE NextItem(c), "lookup")
        /\ UNCHANGED storeVars
        /\ UNCHANGED <<tokenVars, connVars, batchVars, fetchVars, callCount>>

\* company_model.update of an import item
ImportCompanyUpdate(p) ==
    LET c == calls[p]
    IN  /\ c.op = "import" /\ c.pc = "company_update"
        /\ companies' = CompanyRename(companies, c.company_id, "n")
        /\ calls' = [calls EXCEPT ![p] = NextItem(c)]
        /\ last' = ImportStep(NextItem(c), "company")
        /\ UNCHANGED <<stock_prices, financial_metrics, price_statistics, today>>
        /\ UNCHANGED <<tokenVars, connVars, batchVars, fetchVars, callCount>>

\* stock_price_model.create of an import item (INSERT OR REPLACE)
ImportStockPrice(p) ==
    LET c == calls[p]
        r == Head(c.rest).item
    IN  /\ c.op = "import" /\ c.pc = "item"
        /\ Head(c.rest).table = "stock_prices"
        /\ stock_prices' = StockPriceCreate(stock_prices, r.company_id, r.price,
                                            r.price_date, r.volume, today)
        /\ calls' = [calls EXCEPT ![p] = NextItem(c)]
        /\ last' = ImportStep(NextItem(c), "price")
        /\ UNCHANGED <<companies, financial_metrics, price_statistics, today>>
        /\ UNCHANGED <<tokenVars, connVars, batchVars, fetchVars, callCount>>

\* financial_metrics_model.create of an import item (INSERT OR REPLACE)
ImportFinancialMetrics(p) ==
    LET c == calls[p]
        r == Head(c.rest).item
    IN  /\ c.op = "import" /\ c.pc = "item"
        /\ Head(c.rest).table = "financial_metrics"
        /\ financial_metrics' =
              FinancialMetricsCreate(financial_metrics, r.company_id,
                                     r.report_date, r.metrics, today)
        /\ calls' = [calls EXCEPT ![p] = NextItem(c)]
        /\ last' = ImportStep(NextItem(c), "metrics")
        /\ UNCHANGED <<companies, stock_prices, price_statistics, today>>
        /\ UNCHANGED <<tokenVars, connVars, batchVars, fetchVars, callCount>>

----------------------------------------------------------------------------
(* Specifications of the record store *)

IdleToken ==
    /\ tokens = {} /\ tokenSeq = 0 /\ now = 0 /\ utc_offset = 0 /\ tickCount = 0
\* the batch processor as __init__ leaves it: counters 0, no results;
\* requested is the symbol list of a POST /api/stock-data/fetch request,
\* fetcher the fetcher of the processor: "free" (StockBatchProcessor) or
\* "licensed" (JQuantsBatchProcessor).  Of the call of
\* process_company_data that runs or ran last: step is the statement it
\* runs next ("next": it has returned), fetched the data of the fetcher,
\* price_status and fm_status the answers of the two reconciliations,
\* periods the aggregations still to run, stats the aggregate selected,
\* fetch_calls the number of fetcher calls.  Of a request to a fetch
\* route: route is "list" (a body with symbols) or "single" (the symbol in
\* the path, "all": a body without symbols), token_id the saved token the
\* fetcher's constructor has selected and not yet updated, max_companies
\* the limit of a request without symbols.  found_id is the company the
\* licensed fetcher found for the symbol.
NoBatch ==
    [pc |-> "idle", route |-> "none", token_id |-> 0, max_companies |-> NULL,
     found_id |-> NULL,
     fetcher |-> "none", force_update |-> FALSE, companies |-> <<>>,
     results |-> <<>>, success_count |-> 0, error_count |-> 0,
     skip_count |-> 0, total |-> 0, requested |-> <<>>,
     step |-> "next", fetched |-> NoRow, price_status |-> "none",
     fm_status |-> "none", periods |-> <<>>, stats |-> NoStatistic,
     fetch_calls |-> 0]

IdleBatch == batch = NoBatch

\* the processor or a fetch route is at work
BatchBusy == {"load_token", "touch_token", "start", "lookup", "running"}

\* a fetcher between two get_stock_info calls:
\*   pc        "idle", "running" or "done"
\*   kind      "free" (StockDataFetcher) or "licensed" (JQuantsDataFetcher)
\*   attempts  the number of loop turns of the free fetcher begun so far
\*   sleeps    the retry delays slept so far, jitters the number of jitter sleeps
\*   log       the answers of the remote source so far
\*   hour      the local hour of the licensed fetcher's call, date_arg its
\*             date argument (NULL: none given)
\*   target_date, queried, quote: the licensed fetcher's date, the dates it
\*             asked /prices/daily_quotes for so far and the quote it was given
\*   walk      the number of requests of _get_daily_quotes made so far
\*   statements, current_price, histories, company_id: of
\*             _get_financial_statements, the statement it computes the
\*             ratios from, the price it has, the number of yfinance
\*             requests made and the company its search found
\*   result    what get_stock_info returned
NoFetch ==
    [pc |-> "idle", kind |-> "none", symbol |-> "", attempts |-> 0,
     sleeps |-> <<>>, jitters |-> 0, log |-> <<>>, hour |-> 0,
     date_arg |-> NULL, target_date |-> NULL,
     queried |-> <<>>, quote |-> [Date |-> NULL], walk |-> 0,
     statements |-> [TypeOfCurrentPeriod |-> "none"], current_price |-> NULL,
     histories |-> 0, company_id |-> NULL,
     result |-> [kind |-> "none"]]

IdleFetch == fetch = NoFetch

IdleConn ==
    /\ pc = [p \in Procs |-> "idle"]
    /\ txRows = [p \in Procs |-> {}]
    /\ txArg = [p \in Procs |-> [user |-> "", token |-> ""]]
    /\ lock = "none"

\* the database as ensure_database_exists and the schema leave it: no row
InitStore ==
    /\ companies = {}
    /\ stock_prices = {}
    /\ financial_metrics = {}
    /\ price_statistics = {}
    /\ today = StoreToday
    /\ last = NoLast
    /\ IdleToken
    /\ IdleConn
    /\ IdleBatch
    /\ IdleFetch
    /\ IdleCalls

\* the statements of update_statistics
Statistics(p) == StatSelect(p) \/ StatWrite(p)

\* the statements of a registration after its lookup
Registration(p) ==
    \/ RegisterCompanyUpdate(p)
    \/ RegisterCompanyCreate(p)
    \/ RegisterPrice(p)
    \/ RegisterMetrics(p)

\* the statements of an import
ImportItem(p) ==
    \/ ImportCompany(p)
    \/ ImportCompanyLookup(p)
    \/ ImportCompanyUpdate(p)
    \/ ImportStockPrice(p)
    \/ ImportFinancialMetrics(p)

\* the company of the requests of the safe routes and the forced updates
StoreCompanies == {1}

\* both tables, every writer
NextStore ==
    \/ \E p \in Procs, c \in StoreCompanies, x \in StorePriceVals,
          d \in StoreDates \cup {NULL}, v \in StoreVolumeVals :
            AddStockPriceSafe(p, c, x, d, v)
    \/ \E p \in Procs : PriceInsert(p)
    \/ \E p \in Procs : Statistics(p)
    \/ \E p \in Procs, c \in StoreCompanies, x \in StorePriceVals, d \in StoreDates,
          v \in StoreVolumeVals : ForceUpdateStockPrice(p, c, x, d, v)
    \/ \E p \in Procs : ForceUpdateWrite(p)
    \/ \E p \in Procs, c \in StoreCompanies, d \in StoreDates \cup {NULL}, m \in FMCands :
            AddFinancialMetricsSafe(p, c, d, m)
    \/ \E p \in Procs : FMInsert(p)
    \/ \E c \in StoreCompanies, d \in StoreDates, m \in FMCands :
            FMForceUpdate(c, d, m)
    \/ \E p \in Procs, data \in RegisterPayloads : RegisterCompany(p, data)
    \/ \E p \in Procs : Registration(p)
    \/ \E p \in Procs, route \in ImportRoutes, data \in ImportPayloads :
            ImportData(p, route, data)
    \/ \E p \in Procs : ImportItem(p)

SpecStore == InitStore /\ [][NextStore]_vars

\* the price table alone, over all of PriceVals and VolumeVals
NextPrice ==
    \/ \E p \in Procs, c \in Companies, x \in PriceVals,
          d \in StoreDates \cup {NULL}, v \in VolumeVals :
            AddStockPriceSafe(p, c, x, d, v)
    \/ \E p \in Procs : PriceInsert(p)
    \/ \E p \in Procs : Statistics(p)
    \/ \E p \in Procs, c \in Companies, x \in PriceVals, d \in StoreDates,
          v \in VolumeVals : ForceUpdateStockPrice(p, c, x, d, v)
    \/ \E p \in Procs : ForceUpdateWrite(p)

SpecPrice == InitStore /\ [][NextPrice]_vars

----------------------------------------------------------------------------
(* Properties of the record store.  In a step, last' names the statement   *)
(* the step ran, the key and fields its call was given (last'.row) and     *)
(* what it returned: a reconcile is its SELECT, which returns 'warning',   *)
(* 'unchanged' or finds no row ('absent'), and then its INSERT, which      *)
(* returns 'created' or raises.                                            *)

ReconcileOps == {"price_reconcile", "fm_reconcile"}
InsertOps == {"price_insert", "fm_insert"}
ForceOps == {"price_force_update", "fm_force_update"}
PriceOps == {"price_reconcile", "price_insert", "price_force_update"}

\* the rows of the key of row r in the table the operation op works on
RowsOfKey(op, sp, fm, r) ==
    IF op \in PriceOps
    THEN PriceRowsAt(sp, r.company_id, r.price_date)
    ELSE FMRowsAt(fm, r.company_id, r.report_date)

TableOf(op, sp, fm) ==
    IF op \in PriceOps THEN sp ELSE fm

\* the status of a reconcile called again with the key and fields of row r
Again(op, sp, fm, r, td) ==
    IF op \in PriceOps
    THEN StockPriceCreateOrUpdate(sp, r.company_id, r.price, r.price_date,
                                  r.volume, td)
    ELSE FinancialMetricsCreateOrUpdate(fm, r.company_id, r.report_date,
                                        GivenMetrics(r), td)

\* the INSERT of the reconcile of row r is the statement a process runs next
InsertPending(cs, r) == \E p \in Procs : cs[p].pc = "insert" /\ cs[p].row = r

\* C1: reconcile is idempotent.  A reconcile of a key that has no stored row
\* goes on to its INSERT, returns 'created' and stores the row; a reconcile
\* with the same key and fields right after it returns 'unchanged' and
\* leaves the tables as the first call left them.
C1_ReconcileIdempotent ==
    [][/\ last'.op \in ReconcileOps =>
          /\ RowsOfKey(last'.op, stock_prices, financial_metrics, last'.row) = {}
              => /\ last'.status = "absent"
                 /\ InsertPending(calls', last'.row)
                 /\ stock_prices' = stock_prices
                 /\ financial_metrics' = financial_metrics
          /\ last'.repeat
              => /\ last'.status = "unchanged"
                 /\ stock_prices' = stock_prices
                 /\ financial_metrics' = financial_metrics
                 /\ last.row \in TableOf(last'.op, stock_prices', financial_metrics')
       /\ (/\ last'.op \in InsertOps
           /\ RowsOfKey(last'.op, stock_prices, financial_metrics, last'.row) = {})
              => /\ last'.status = "created"
                 /\ RowsOfKey(last'.op, stock_prices', financial_metrics', last'.row)
                      = {last'.row}
                 /\ Again(last'.op, stock_prices', financial_metrics', last'.row,
                          today').status = "unchanged"
      ]_vars

\* a reconcile has repeated the call that created a row
C1_Witness ==
    /\ last.op \in ReconcileOps
    /\ last.repeat
    /\ last.status = "unchanged"
    /\ last.row \in TableOf(last.op, stock_prices, financial_metrics)

\* C2: a reconcile that returns 'warning' (CONFLICT) or 'unchanged' writes
\* nothing: every table is the same after the call as before it.
C2_NoWriteOnConflict ==
    [][(last'.op \in ReconcileOps /\ last'.status \in {"warning", "unchanged"})
        => /\ stock_prices' = stock_prices
           /\ financial_metrics' = financial_metrics
           /\ companies' = companies
           /\ price_statistics' = price_statistics
      ]_vars

\* a reconcile has met a stored row with other values
C2_Witness ==
    /\ last.op \in ReconcileOps
    /\ last.status = "warning"
    /\ last.row \notin TableOf(last.op, stock_prices, financial_metrics)

\* each (company_id, date) has at most one row in stock_prices and in
\* financial_metrics
UniqueKeys ==
    /\ \A r, q \in stock_prices :
          (r.company_id = q.company_id /\ r.price_date = q.price_date) => r = q
    /\ \A r, q \in financial_metrics :
          (r.company_id = q.company_id /\ r.report_date = q.report_date) => r = q

\* C3: each natural key has at most one stored row, and only reconcile (and
\* the administrative forced update) changes the rows of stock_prices and
\* financial_metrics: registration and import do not.
C3_ReconcileSoleWriter ==
    /\ []UniqueKeys
    /\ [][/\ stock_prices' # stock_prices
              => last'.op \in {"price_insert", "price_force_update"}
          /\ financial_metrics' # financial_metrics
              => last'.op \in {"fm_insert", "fm_force_update"}
         ]_vars

\* C4: with a stored row of the key and an equal volume, reconcile returns
\* 'warning' when the prices are more than 0.01 apart and 'unchanged' when
\* they are 0.01 or less apart.
C4_PriceTolerance ==
    [][last'.op = "price_reconcile" =>
        \A e \in PriceRowsAt(stock_prices, last'.row.company_id, last'.row.price_date) :
            e.volume = last'.row.volume
            => last'.status = IF Abs(e.price - last'.row.price) > PriceTol
                              THEN "warning" ELSE "unchanged"
      ]_vars

\* the table with the roe of the row of (company_id, report_date) set to NULL
WithoutRoe(fm, company_id, report_date) ==
    {IF r \in FMRowsAt(fm, company_id, report_date)
     THEN [r EXCEPT !.vals["roe"] = NULL] ELSE r : r \in fm}

\* C5: a candidate that omits roe is never in conflict because of roe: the
\* reconcile returns what it returns when the stored roe is NULL.
C5_AbsentFieldSkipped ==
    [][(/\ last'.op = "fm_reconcile"
        /\ last'.row.vals["roe"] = NULL
        /\ RowsOfKey("fm_reconcile", stock_prices, financial_metrics, last'.row) # {})
        => last'.status =
             Again("fm_reconcile", stock_prices,
                   WithoutRoe(financial_metrics, last'.row.company_id,
                              last'.row.report_date),
                   last'.row, today).status
      ]_vars

\* C6: a forced update of a key that has no row reports not-found (404 of
\* the route, zero rows of the model method) and leaves every table as it is.
C6_ForceUpdateNeverCreates ==
    [][(/\ last'.op \in ForceOps
        /\ RowsOfKey(last'.op, stock_prices, financial_metrics, last'.row) = {})
        => /\ last'.status = "not_found"
           /\ last'.rowcount = 0
           /\ UNCHANGED storeVars
      ]_vars

\* a forced update has found no row
C6_Witness ==
    /\ last.op \in ForceOps
    /\ last.status = "not_found"
    /\ RowsOfKey(last.op, stock_prices, financial_metrics, last.row) = {}

\* C7: a forced update of a key that has a row leaves that key with exactly
\* the supplied values (columns of financial_metrics that are not supplied
\* become NULL), whatever the stored values were, and leaves the rows of the
\* other keys and the other tables as they are.
C7_ForceUpdateOverwrites ==
    [][(/\ last'.op \in ForceOps
        /\ RowsOfKey(last'.op, stock_prices, financial_metrics, last'.row) # {})
        => /\ last'.status = "updated"
           /\ RowsOfKey(last'.op, stock_prices', financial_metrics', last'.row)
                = {last'.row}
           /\ stock_prices' \ {last'.row}
                = stock_prices \ RowsOfKey(last'.op, stock_prices, {}, last'.row)
           /\ financial_metrics' \ {last'.row}
                = financial_metrics \ RowsOfKey(last'.op, {}, financial_metrics, last'.row)
           /\ UNCHANGED <<companies, price_statistics>>
      ]_vars

\* a forced update has written values that a reconcile reports as a conflict,
\* next to a row of another key
C7_Witness ==
    /\ last.op \in ForceOps
    /\ last.status = "updated"
    /\ last.pre = "warning"
    /\ last.row \in TableOf(last.op, stock_prices, financial_metrics)
    /\ Cardinality(TableOf(last.op, stock_prices, financial_metrics)) = 2

----------------------------------------------------------------------------
(* JQuantsTokenManager (backend/utils/token_manager.py).  Time is counted  *)
(* in hours.  datetime.now() reads the local wall clock; datetime('now')   *)
(* and CURRENT_TIMESTAMP of SQLite read UTC.  Timestamps are stored as     *)
(* text and compared as text, which orders them as wall-clock readings.    *)

\* timedelta(days=7) of save_refresh_token
TokenLifetime == 168

\* timedelta(days=30) of cleanup_expired_tokens
CleanupAge == 720

Users == {"default", "u2"}
RefreshTokens == {"t1", "t2"}
PlanTypes == {"Standard"}

\* the server's time zone: UTC or Asia/Tokyo
UtcOffsets == {0, 9}

\* hours by which the clock advances between calls
TickSteps == {168, 720}
MaxTicks == 2

\* datetime('now') / CURRENT_TIMESTAMP when the local clock reads t
SqlNow(t, tz) == t - tz

NoTokenRow == [id |-> 0]

\* SELECT ... WHERE user_identifier = ?
TokenRowsOf(rows, user_identifier) ==
    {r \in rows : r.user_identifier = user_identifier}

\* UPDATE jquants_tokens SET is_active = 0 WHERE user_identifier = ?
DeactivateTokens(rows, user_identifier) ==
    {IF r.user_identifier = user_identifier
     THEN [r EXCEPT !.is_active = FALSE] ELSE r : r \in rows}

\* INSERT INTO jquants_tokens (user_identifier, refresh_token, expires_at,
\* plan_type, last_used_at): the column user_identifier is UNIQUE, the id
\* is AUTOINCREMENT, created_at defaults to CURRENT_TIMESTAMP.
InsertToken(rows, seq, refresh_token, user_identifier, plan_type, t, tz) ==
    IF TokenRowsOf(rows, user_identifier) # {}
    THEN [ok |-> FALSE, rows |-> rows, seq |-> seq]
    ELSE [ok |-> TRUE,
          rows |-> rows \cup {[id |-> seq + 1,
                               user_identifier |-> user_identifier,
                               refresh_token |-> refresh_token,
                               created_at |-> SqlNow(t, tz),
                               expires_at |-> t + TokenLifetime,
                               last_used_at |-> t,
                               is_active |-> TRUE,
                               plan_type |-> plan_type]},
          seq |-> seq + 1]

\* A rollback that leaves the transaction's writes in the database.
RollbackKeepsWrites(committed, written) == written

\* The exit of "with sqlite3.connect(...) as conn" on an exception:
\* conn.rollback(); the database keeps its committed rows.
Rollback(committed, written) == committed

\* A save that adds the new row beside the rows of the identifier: no
\* deactivation and no uniqueness of user_identifier.
SaveRefreshTokenAppend(rows, seq, refresh_token, user_identifier, plan_type, t, tz) ==
    [ok |-> TRUE,
     rows |-> rows \cup {[id |-> seq + 1,
                          user_identifier |-> user_identifier,
                          refresh_token |-> refresh_token,
                          created_at |-> SqlNow(t, tz),
                          expires_at |-> t + TokenLifetime,
                          last_used_at |-> t,
                          is_active |-> TRUE,
                          plan_type |-> plan_type]},
     seq |-> seq + 1]

\* save_refresh_token: UPDATE, INSERT, commit; on an exception the
\* transaction is rolled back and False is returned.
SaveRefreshToken(rows, seq, refresh_token, user_identifier, plan_type, t, tz) ==
    LET updated == DeactivateTokens(rows, user_identifier)
        ins == InsertToken(updated, seq, refresh_token, user_identifier,
                           plan_type, t, tz)
    IN  IF ins.ok
        THEN [ok |-> TRUE, rows |-> ins.rows, seq |-> ins.seq]
        ELSE [ok |-> FALSE, rows |-> Rollback(rows, updated), seq |-> seq]

\* The SELECT of get_refresh_token: the active row of the identifier whose
\* expires_at is above datetime('now'), newest created_at first.
SelectRefreshToken(rows, user_identifier, t, tz) ==
    LET found == {r \in TokenRowsOf(rows, user_identifier) :
                     r.is_active /\ r.expires_at > SqlNow(t, tz)}
    IN  IF found = {}
        THEN [found |-> FALSE, token_info |-> NoTokenRow]
        ELSE [found |-> TRUE,
              token_info |-> CHOOSE r \in found :
                                \A q \in found : q.created_at <= r.created_at]

\* The UPDATE of get_refresh_token: last_used_at of the row of that id is
\* set to datetime('now'); a row deleted since the SELECT is not written.
TouchRefreshToken(rows, id, t, tz) ==
    {IF r.id = id THEN [r EXCEPT !.last_used_at = SqlNow(t, tz)] ELSE r :
        r \in rows}

\* check_token_expiry after get_refresh_token returned token_info:
\* classifies expires_at - datetime.now(); timedelta.days is the floor of
\* the days.
ClassifyTokenExpiry(token_info, t) ==
    LET time_remaining == token_info.expires_at - t
        days_remaining == time_remaining \div 24
    IN  IF time_remaining <= 0
        THEN [valid |-> FALSE, status |-> "expired", days_remaining |-> 0]
        ELSE IF days_remaining <= 1
        THEN [valid |-> TRUE, status |-> "expiring_soon",
              days_remaining |-> days_remaining]
        ELSE IF days_remaining <= 2
        THEN [valid |-> TRUE, status |-> "warning",
              days_remaining |-> days_remaining]
        ELSE [valid |-> TRUE, status |-> "valid",
              days_remaining |-> days_remaining]

\* A cleanup whose DELETE lacks "AND is_active = 0".
CleanupExpiredTokensAnyState(rows, t) ==
    LET deleted == {r \in rows : r.expires_at < t - CleanupAge}
    IN  [deleted_count |-> Cardinality(deleted), rows |-> rows \ deleted]

\* cleanup_expired_tokens: DELETE ... WHERE expires_at < now - 30 days
\* AND is_active = 0
CleanupExpiredTokens(rows, t) ==
    LET deleted == {r \in rows : r.expires_at < t - CleanupAge /\ ~r.is_active}
    IN  [deleted_count |-> Cardinality(deleted), rows |-> rows \ deleted]

\* An invalidation whose UPDATE lacks "user_identifier = ?".
InvalidateTokenAnyUser(rows, user_identifier) ==
    LET hit == {r \in rows : r.is_active}
    IN  [ok |-> hit # {}, updated_count |-> Cardinality(hit),
         rows |-> {IF r \in hit THEN [r EXCEPT !.is_active = FALSE] ELSE r :
                      r \in rows}]

\* invalidate_token: UPDATE ... SET is_active = 0 WHERE user_identifier = ?
\* AND is_active = 1
InvalidateToken(rows, user_identifier) ==
    LET hit == {r \in TokenRowsOf(rows, user_identifier) : r.is_active}
    IN  [ok |-> hit # {}, updated_count |-> Cardinality(hit),
         rows |-> {IF r \in hit THEN [r EXCEPT !.is_active = FALSE] ELSE r :
                      r \in rows}]

----------------------------------------------------------------------------
(* Calls of the token manager, one call per step *)

\* what a call was made with
TokenCall(user_identifier, refresh_token) ==
    [user_identifier |-> user_identifier, refresh_token |-> refresh_token]

\* save_refresh_token(refresh_token, user_identifier, plan_type);
\* last'.repeat tells that the identifier had a row before the call
Save(refresh_token, user_identifier, plan_type) ==
    LET res == SaveRefreshToken(tokens, tokenSeq, refresh_token, user_identifier,
                                plan_type, now, utc_offset)
    IN  /\ tokens' = res.rows
        /\ tokenSeq' = res.seq
        /\ last' = Last("save", IF res.ok THEN "true" ELSE "false", 0, "none",
                        TokenCall(user_identifier, refresh_token),
                        TokenRowsOf(tokens, user_identifier) # {})
        /\ UNCHANGED <<now, utc_offset, tickCount, storeVars, connVars, batchVars, fetchVars, callVars>>

\* get_refresh_token(user_identifier), called by itself (caller "get") or
\* by check_token_expiry (caller "check"), runs on a connection of its own.
\* Its SELECT is a statement by itself: it reads the committed table and
\* datetime('now') and holds no lock afterwards.  With no row found the
\* call returns None (check_token_expiry: status not_found).
GetSelect(p, user_identifier, caller) ==
    LET sel == SelectRefreshToken(tokens, user_identifier, now, utc_offset)
    IN  /\ pc[p] = "idle"
        /\ IF sel.found
           THEN /\ pc' = [pc EXCEPT ![p] = caller \o "_selected"]
                /\ txRows' = [txRows EXCEPT ![p] = {sel.token_info}]
                /\ txArg' = [txArg EXCEPT ![p] = [user |-> user_identifier,
                                                  token |-> ""]]
                /\ last' = Last(caller \o "_select", "found", sel.token_info.id,
                                p, TokenCall(user_identifier, ""), FALSE)
           ELSE /\ UNCHANGED <<pc, txRows, txArg>>
                /\ last' = IF caller = "get"
                           THEN Last("get_active", "none", 0, "none",
                                     TokenCall(user_identifier, ""), FALSE)
                           ELSE Last("check_expiry", "not_found", 0, "invalid",
                                     TokenCall(user_identifier, ""), FALSE)
        /\ UNCHANGED <<tokens, tokenSeq, now, utc_offset, tickCount, lock>>
        /\ UNCHANGED <<storeVars, batchVars, fetchVars, callVars>>

\* The UPDATE of last_used_at and its commit, with the write lock free: a
\* transaction of its own that reads datetime('now') again.
\* get_refresh_token returns the row its SELECT read.
GetUpdate(p) ==
    LET token_info == FirstRow(txRows[p])
    IN  /\ pc[p] \in {"get_selected", "check_selected"}
        /\ lock = "none"
        /\ tokens' = TouchRefreshToken(tokens, token_info.id, now, utc_offset)
        /\ IF pc[p] = "get_selected"
           THEN /\ pc' = [pc EXCEPT ![p] = "idle"]
                /\ txRows' = [txRows EXCEPT ![p] = {}]
                /\ last' = Last("get_active", "found", token_info.id, "none",
                                TokenCall(txArg[p].user, ""), FALSE)
           ELSE /\ pc' = [pc EXCEPT ![p] = "check_got"]
                /\ UNCHANGED txRows
                /\ last' = Last("check_touch", "found", token_info.id, p,
                                TokenCall(txArg[p].user, ""), FALSE)
        /\ UNCHANGED <<tokenSeq, now, utc_offset, tickCount, txArg, lock>>
        /\ UNCHANGED <<storeVars, batchVars, fetchVars, callVars>>

\* The UPDATE timing out on the write lock of another connection:
\* sqlite3.OperationalError, get_refresh_token returns None although its
\* SELECT found the row (check_token_expiry: status not_found).
GetLocked(p) ==
    /\ pc[p] \in {"get_selected", "check_selected"}
    /\ lock \notin {"none", p}
    /\ pc' = [pc EXCEPT ![p] = "idle"]
    /\ txRows' = [txRows EXCEPT ![p] = {}]
    /\ last' = IF pc[p] = "get_selected"
               THEN Last("get_active", "none", 0, "locked",
                         TokenCall(txArg[p].user, ""), FALSE)
               ELSE Last("check_expiry", "not_found", 0, "invalid",
                         TokenCall(txArg[p].user, ""), FALSE)
    /\ UNCHANGED <<tokenVars, txArg, lock, storeVars, batchVars, fetchVars, callVars>>

\* check_token_expiry after get_refresh_token returned the row: reads
\* datetime.now() and classifies.  last'.rowcount is days_remaining,
\* last'.pre the flag valid.
CheckClassify(p) ==
    LET res == ClassifyTokenExpiry(FirstRow(txRows[p]), now)
    IN  /\ pc[p] = "check_got"
        /\ pc' = [pc EXCEPT ![p] = "idle"]
        /\ txRows' = [txRows EXCEPT ![p] = {}]
        /\ last' = Last("check_expiry", res.status, res.days_remaining,
                        IF res.valid THEN "valid" ELSE "invalid",
                        TokenCall(txArg[p].user, ""), FALSE)
        /\ UNCHANGED <<tokenVars, txArg, lock, storeVars, batchVars, fetchVars, callVars>>

\* invalidate_token(user_identifier)
Invalidate(user_identifier) ==
    LET res == InvalidateToken(tokens, user_identifier)
    IN  /\ tokens' = res.rows
        /\ last' = Last("invalidate", IF res.ok THEN "true" ELSE "false",
                        res.updated_count, "none",
                        TokenCall(user_identifier, ""),
                        last.op = "invalidate"
                            /\ last.row = TokenCall(user_identifier, ""))
        /\ UNCHANGED <<tokenSeq, now, utc_offset, tickCount, storeVars, connVars, batchVars, fetchVars, callVars>>

\* cleanup_expired_tokens()
Cleanup ==
    LET res == CleanupExpiredTokens(tokens, now)
    IN  /\ tokens' = res.rows
        /\ last' = Last("cleanup", "done", res.deleted_count, "none",
                        TokenCall("", ""), FALSE)
        /\ UNCHANGED <<tokenSeq, now, utc_offset, tickCount, storeVars, connVars, batchVars, fetchVars, callVars>>

\* the wall clock advances by d hours
Tick(d) ==
    /\ tickCount < MaxTicks
    /\ now' = now + d
    /\ tickCount' = tickCount + 1
    /\ last' = Last("tick", "none", d, "none", TokenCall("", ""), FALSE)
    /\ UNCHANGED <<tokens, tokenSeq, utc_offset, storeVars, connVars, batchVars, fetchVars, callVars>>

IdleStore ==
    /\ companies = {} /\ stock_prices = {} /\ financial_metrics = {}
    /\ price_statistics = {} /\ today = StoreToday

\* the token table right after _initialize_db created it
InitToken ==
    /\ IdleStore
    /\ IdleConn
    /\ IdleBatch
    /\ IdleFetch
    /\ IdleCalls
    /\ last = NoLast
    /\ tokens = {} /\ tokenSeq = 0 /\ now = 0 /\ tickCount = 0
    /\ utc_offset \in UtcOffsets

\* the connection get_refresh_token and check_token_expiry run on while
\* the other calls, each on a connection of its own, run between their
\* statements
Reader == "p1"

NextToken ==
    \/ \E t \in RefreshTokens, u \in Users, pt \in PlanTypes : Save(t, u, pt)
    \/ \E u \in Users : GetSelect(Reader, u, "get")
    \/ \E u \in Users : GetSelect(Reader, u, "check")
    \/ GetUpdate(Reader)
    \/ CheckClassify(Reader)
    \/ \E u \in Users : Invalidate(u)
    \/ Cleanup
    \/ \E d \in TickSteps : Tick(d)

SpecToken == InitToken /\ [][NextToken]_vars

----------------------------------------------------------------------------
(* save_refresh_token called by processes that share the database file.    *)
(* Each call runs on a connection of its own.  The UPDATE opens the        *)
(* transaction and takes the write lock of the database; while another     *)
(* connection holds it the statement waits, and fails with "database is    *)
(* locked" when the wait times out.  The writes of a transaction are       *)
(* private to its connection until the commit.                             *)

\* cursor.execute(UPDATE ...) with the write lock free
SaveUpdate(p, refresh_token, user_identifier) ==
    /\ pc[p] = "idle"
    /\ lock = "none"
    /\ lock' = p
    /\ pc' = [pc EXCEPT ![p] = "updated"]
    /\ txRows' = [txRows EXCEPT ![p] = DeactivateTokens(tokens, user_identifier)]
    /\ txArg' = [txArg EXCEPT ![p] = [user |-> user_identifier,
                                      token |-> refresh_token]]
    /\ last' = Last("save_update", "locked", 0, p,
                    TokenCall(user_identifier, refresh_token), FALSE)
    /\ UNCHANGED <<tokenVars, storeVars, batchVars, fetchVars, callVars>>

\* cursor.execute(UPDATE ...) timing out on the lock of another connection:
\* sqlite3.OperationalError, save_refresh_token returns False
SaveLocked(p, refresh_token, user_identifier) ==
    /\ pc[p] = "idle"
    /\ lock \notin {"none", p}
    /\ last' = Last("save_update", "false", 0, p,
                    TokenCall(user_identifier, refresh_token), FALSE)
    /\ UNCHANGED <<tokenVars, storeVars, connVars, batchVars, fetchVars, callVars>>

\* cursor.execute(INSERT ...); on sqlite3.IntegrityError the transaction is
\* rolled back and save_refresh_token returns False.  last'.rowcount is the
\* number of rows the UPDATE of this transaction had deactivated.
SaveInsert(p) ==
    LET ins == InsertToken(txRows[p], tokenSeq, txArg[p].token, txArg[p].user,
                           "Standard", now, utc_offset)
        deactivated == txRows[p] \ tokens
    IN  /\ pc[p] = "updated"
        /\ IF ins.ok
           THEN /\ txRows' = [txRows EXCEPT ![p] = ins.rows]
                /\ pc' = [pc EXCEPT ![p] = "inserted"]
                /\ last' = Last("save_insert", "inserted", Cardinality(deactivated),
                                p, TokenCall(txArg[p].user, txArg[p].token), FALSE)
                /\ UNCHANGED <<tokens, lock>>
           ELSE /\ tokens' = Rollback(tokens, txRows[p])
                /\ txRows' = [txRows EXCEPT ![p] = {}]
                /\ pc' = [pc EXCEPT ![p] = "idle"]
                /\ lock' = "none"
                /\ last' = Last("save_insert", "false", Cardinality(deactivated),
                                p, TokenCall(txArg[p].user, txArg[p].token), FALSE)
        /\ UNCHANGED <<tokenSeq, now, utc_offset, tickCount, txArg, storeVars, batchVars, fetchVars, callVars>>

\* conn.commit(): the writes of the transaction become the database
SaveCommit(p) ==
    /\ pc[p] = "inserted"
    /\ tokens' = txRows[p]
    /\ tokenSeq' = tokenSeq + 1
    /\ txRows' = [txRows EXCEPT ![p] = {}]
    /\ pc' = [pc EXCEPT ![p] = "idle"]
    /\ lock' = "none"
    /\ last' = Last("save_commit", "true", 0, p,
                    TokenCall(txArg[p].user, txArg[p].token), FALSE)
    /\ UNCHANGED <<now, utc_offset, tickCount, txArg, storeVars, batchVars, fetchVars, callVars>>

InitSave ==
    /\ IdleStore
    /\ IdleConn
    /\ IdleBatch
    /\ IdleFetch
    /\ IdleCalls
    /\ last = NoLast
    /\ tokens = {} /\ tokenSeq = 0 /\ now = 0 /\ tickCount = 0
    /\ utc_offset \in UtcOffsets

NextSave ==
    \/ \E p \in Procs, t \in RefreshTokens, u \in Users : SaveUpdate(p, t, u)
    \/ \E p \in Procs, t \in RefreshTokens, u \in Users : SaveLocked(p, t, u)
    \/ \E p \in Procs : SaveInsert(p)
    \/ \E p \in Procs : SaveCommit(p)
    \/ \E p \in Procs, u \in Users : GetSelect(p, u, "get")
    \/ \E p \in Procs, u \in Users : GetSelect(p, u, "check")
    \/ \E p \in Procs : GetUpdate(p)
    \/ \E p \in Procs : GetLocked(p)
    \/ \E p \in Procs : CheckClassify(p)

SpecSave == InitSave /\ [][NextSave]_vars

----------------------------------------------------------------------------
(* Properties of the token manager *)

ActiveTokens(rows, user_identifier) ==
    {r \in TokenRowsOf(rows, user_identifier) : r.is_active}

TokenIds(rows) == {r.id : r \in rows}

\* C8: after a save for an identifier that already had a row (a second
\* save), exactly one row of the identifier is active, it is a new row
\* holding the saved token, and every row the identifier had before is
\* still in the table and inactive.
C8_TokenSupersession ==
    [][(last'.op = "save" /\ TokenRowsOf(tokens, last'.row.user_identifier) # {})
        => LET u == last'.row.user_identifier
               active == ActiveTokens(tokens', u)
           IN  /\ Cardinality(active) = 1
               /\ \A r \in active : /\ r.refresh_token = last'.row.refresh_token
                                    /\ r.id \notin TokenIds(tokens)
               /\ \A q \in TokenRowsOf(tokens, u) :
                      \E r \in tokens' : r.id = q.id /\ ~r.is_active]_vars

\* C9: in every state reached by save, get_refresh_token,
\* check_token_expiry, invalidate_token and cleanup_expired_tokens calls,
\* every identifier has at most one active row.
C9_AtMostOneActive ==
    \A u \in Users : Cardinality(ActiveTokens(tokens, u)) <= 1

\* a second save was called for an identifier whose row is active, after
\* the other operations ran
C9_Witness ==
    /\ last.op = "save" /\ last.repeat
    /\ Cardinality(ActiveTokens(tokens, last.row.user_identifier)) = 1
    /\ \E r \in tokens : ~r.is_active
    /\ tokenSeq >= 3

\* C10: with saves of several processes interleaved and with the INSERT
\* failing, every committed table has at most one active row per
\* identifier, and no step leaves a committed row deactivated unless the
\* same step commits a new row of that identifier.
C10_SaveAtomic ==
    /\ [](\A u \in Users : Cardinality(ActiveTokens(tokens, u)) <= 1)
    /\ [][\A u \in Users :
            (\E q \in ActiveTokens(tokens, u) :
                 \E r \in tokens' : r.id = q.id /\ ~r.is_active)
            => \E r \in TokenRowsOf(tokens', u) : r.id \notin TokenIds(tokens)]_vars

\* a save deactivated the active row of its identifier in its transaction,
\* its INSERT failed, and the committed row is active; meanwhile the save
\* of the other process was refused the lock or is waiting to start
C10_Witness ==
    /\ last.op = "save_insert" /\ last.status = "false" /\ last.rowcount = 1
    /\ ActiveTokens(tokens, last.row.user_identifier) # {}
    /\ Cardinality(tokens) = 2

----------------------------------------------------------------------------
(* The token manager with the clock advancing in steps that leave a saved  *)
(* token 73, 72, 49, 48, 47, 25, 24, 23, 0 and -1 hours of its lifetime.   *)

ExpirySteps == {24, 72, 95, 96, 119, 121, 145, 169}

NextExpiry ==
    \/ \E t \in RefreshTokens, pt \in PlanTypes : Save(t, "default", pt)
    \/ \E p \in Procs : GetSelect(p, "default", "get")
    \/ \E p \in Procs : GetSelect(p, "default", "check")
    \/ \E p \in Procs : GetUpdate(p)
    \/ \E p \in Procs : CheckClassify(p)
    \/ \E d \in ExpirySteps : Tick(d)

SpecExpiry == InitToken /\ [][NextExpiry]_vars

----------------------------------------------------------------------------
(* Properties of get_refresh_token, check_token_expiry, invalidate_token   *)
(* and cleanup_expired_tokens.  "now" is the clock datetime.now() reads,   *)
(* the one expires_at was computed from.                                   *)

\* the rows getActive may return: of the identifier, active, expires_at
\* later than now
LiveTokens(rows, user_identifier, t) ==
    {r \in ActiveTokens(rows, user_identifier) : r.expires_at > t}

\* rows with the row of id i touched at time t
Touched(rows, i, t) ==
    {IF r.id = i THEN [r EXCEPT !.last_used_at = t] ELSE r : r \in rows}

\* C11: get_refresh_token returns a row only if it is a row of the
\* identifier that is active and has expires_at later than now, and then
\* sets that row's last_used_at to now and changes nothing else; when no
\* row qualifies (also an active row whose expires_at has passed) it
\* returns None and changes no row.  The step is the one in which the call
\* returns.
C11_GetActive ==
    [][last'.op = "get_active"
        => LET live == LiveTokens(tokens, last'.row.user_identifier, now)
           IN  /\ last'.status = "found"
                    => /\ last'.rowcount \in TokenIds(live)
                       /\ tokens' = Touched(tokens, last'.rowcount, now)
               /\ live = {}
                    => last'.status = "none" /\ tokens' = tokens]_vars

\* the steps of a check_token_expiry call
CheckExpiryOps == {"check_select", "check_touch", "check_expiry"}

\* C12: check_token_expiry is a pure query: no step of the call changes
\* the table, last_used_at of every row included.
C12_CheckExpiryPure ==
    [][last'.op \in CheckExpiryOps => tokens' = tokens]_vars

\* C13: check_token_expiry of an identifier whose active row has
\* expires_at in the past answers status expired with valid = false.
C13_ExpiredClassified ==
    [][(/\ last'.op = "check_expiry"
        /\ \E r \in ActiveTokens(tokens, last'.row.user_identifier) :
               r.expires_at < now)
        => last'.status = "expired" /\ last'.pre = "invalid"]_vars

\* C14: for an active token with r = expires_at - now > 0 hours,
\* check_token_expiry answers valid = true with expiring_soon exactly when
\* r <= 24, warning exactly when 24 < r <= 48, valid exactly when r > 48.
C14_ExpiryBuckets ==
    [][last'.op = "check_expiry"
        => \A q \in ActiveTokens(tokens, last'.row.user_identifier) :
              q.expires_at - now > 0
              => /\ last'.pre = "valid"
                 /\ last'.status =
                      IF q.expires_at - now <= 24 THEN "expiring_soon"
                      ELSE IF q.expires_at - now <= 48 THEN "warning"
                      ELSE "valid"]_vars

\* C15: invalidate_token leaves no active row of the identifier, deletes
\* no row, changes nothing but is_active of the identifier's rows, and a
\* second call leaves the table as the first call left it.
C15_InvalidateIdempotent ==
    [][last'.op = "invalidate"
        => LET u == last'.row.user_identifier
           IN  /\ ActiveTokens(tokens', u) = {}
               /\ tokens' = {IF r.user_identifier = u
                             THEN [r EXCEPT !.is_active = FALSE] ELSE r :
                                r \in tokens}
               /\ Cardinality(tokens') = Cardinality(tokens)
               /\ InvalidateToken(tokens', u).rows = tokens'
               /\ last'.repeat => tokens' = tokens /\ last'.status = "false"]_vars

\* invalidate_token was called twice in a row for an identifier that had
\* an active row, while the other identifier keeps its active row
C15_Witness ==
    /\ last.op = "invalidate" /\ last.repeat /\ last.status = "false"
    /\ \E r \in TokenRowsOf(tokens, last.row.user_identifier) : ~r.is_active
    /\ \E r \in tokens : r.user_identifier # last.row.user_identifier
                         /\ r.is_active

\* C16: cleanup_expired_tokens deletes exactly the inactive rows whose
\* expires_at is more than 30 days before now and returns their number;
\* active rows and rows that expired 30 days ago or less stay.
C16_CleanupExact ==
    [][last'.op = "cleanup"
        => /\ tokens' \subseteq tokens
           /\ tokens \ tokens' = {r \in tokens : /\ ~r.is_active
                                                 /\ now - r.expires_at > CleanupAge}
           /\ last'.rowcount = Cardinality(tokens \ tokens')]_vars

\* a cleanup deleted a row and kept an active row that expired more than
\* 30 days ago
C16_Witness ==
    /\ last.op = "cleanup" /\ last.rowcount = 1
    /\ \E r \in tokens : r.is_active /\ now - r.expires_at > CleanupAge

\* a cleanup kept an inactive row that expired exactly 30 days ago
C16_Boundary ==
    /\ last.op = "cleanup" /\ last.rowcount = 0
    /\ \E r \in tokens : ~r.is_active /\ now - r.expires_at = CleanupAge

----------------------------------------------------------------------------
(* StockBatchProcessor (backend/utils/stock_batch_processor.py) and        *)
(* JQuantsBatchProcessor (backend/utils/jquants_batch_processor.py).  The  *)
(* two classes share process_all_companies, process_company_data,          *)
(* should_update_data, _update_stock_price, _update_price_statistics and   *)
(* _update_company_info; each has its own mapping of the fetched financial *)
(* fields.                                                                 *)

\* dates of the fetched quotes: two days back, yesterday, today
BatchDates == {20231230, 20231231, 20240101}
BatchToday == Max(BatchDates)

\* last_update_days of should_update_data
StalenessDays == 1

IsLeap(y) == (y % 4 = 0 /\ y % 100 # 0) \/ y % 400 = 0

DaysInMonth(y, m) ==
    IF m = 2 THEN (IF IsLeap(y) THEN 29 ELSE 28)
    ELSE IF m \in {4, 6, 9, 11} THEN 30 ELSE 31

\* d - timedelta(days=1)
PrevDay(d) ==
    LET y == d \div 10000
        m == (d \div 100) % 100
        dd == d % 100
    IN  IF dd > 1 THEN d - 1
        ELSE IF m > 1 THEN y * 10000 + (m - 1) * 100 + DaysInMonth(y, m - 1)
        ELSE (y - 1) * 10000 + 1231

RECURSIVE DaysBefore(_, _)
DaysBefore(d, n) == IF n = 0 THEN d ELSE DaysBefore(PrevDay(d), n - 1)

\* StockPrice.get_latest_price: ORDER BY price_date DESC LIMIT 1
LatestPrice(sp, company_id) ==
    {r \in sp : /\ r.company_id = company_id
                /\ \A q \in sp : q.company_id = company_id
                                    => q.price_date <= r.price_date}

\* An update test that also refreshes data dated at the cutoff.
ShouldUpdateDataInclusive(sp, company_id, td) ==
    LET latest_price == LatestPrice(sp, company_id)
    IN  IF latest_price = {} THEN TRUE
        ELSE FirstRow(latest_price).price_date <= DaysBefore(td, StalenessDays)

\* should_update_data: no stored price, or the latest price_date is before
\* the date of now - 1 day
ShouldUpdateData(sp, company_id, td) ==
    LET latest_price == LatestPrice(sp, company_id)
    IN  IF latest_price = {} THEN TRUE
        ELSE FirstRow(latest_price).price_date < DaysBefore(td, StalenessDays)

\* a symbol that is None
NoneStr == "None"

\* 1.0 as a ratio
RatioOne == 20000

\* the fetchers of the two processors
Fetchers == {"free", "licensed"}

\* The entries of a result of get_stock_info that process_company_data
\* reads beside symbol, price, price_date and volume; an entry that is None
\* or that the fetcher does not make is NULL, a text that is missing is "".
NoInfo ==
    [sector |-> "", market |-> "", pbr |-> NULL, per |-> NULL, roe |-> NULL,
     debt_to_equity |-> NULL, equity_ratio |-> NULL, roa |-> NULL]

\* What fetcher.get_stock_info(symbol) did: it returned None ("none"), it
\* returned a dictionary ("data"), or an exception left the call ("raise").
Fetched(kind, symbol, price, price_date, volume, info) ==
    [kind |-> kind, symbol |-> symbol, price |-> price, price_date |-> price_date,
     volume |-> volume, sector |-> info.sector, market |-> info.market,
     pbr |-> info.pbr, per |-> info.per, roe |-> info.roe,
     debt_to_equity |-> info.debt_to_equity,
     equity_ratio |-> info.equity_ratio, roa |-> info.roa]

\* datetime.fromisoformat / strptime('%Y-%m-%d') accept the text of d: it
\* names a day of the calendar
ParseableDate(d) ==
    LET y == d \div 10000
        m == (d \div 100) % 100
        dd == d % 100
    IN  /\ y \in 1..9999
        /\ m \in 1..12
        /\ dd \in 1..DaysInMonth(y, m)

\* A validation that accepts every price.
ValidateStockDataAnyPrice(data) ==
    /\ data.symbol # NoneStr
    /\ data.price # NULL
    /\ data.price_date # NULL
    /\ ParseableDate(data.price_date)

\* fetcher.validate_stock_data
ValidateStockData(data) ==
    /\ data.symbol # NoneStr
    /\ data.price # NULL
    /\ data.price_date # NULL
    /\ data.price > 0
    /\ ParseableDate(data.price_date)

\* 1 / (1 + dte) of StockBatchProcessor._update_financial_metrics, for a
\* debt_to_equity whose quotient is a whole number of ratio units
EquityRatioOf(dte) ==
    IF dte # NULL /\ dte > 0 THEN (RatioOne * RatioOne) \div (RatioOne + dte)
    ELSE NULL

\* financial_data of _update_financial_metrics: the fields the fetcher
\* gave.  StockBatchProcessor divides a roe above 1 by 100 and derives
\* equity_ratio from debt_to_equity; JQuantsBatchProcessor takes pbr, per,
\* roe, equity_ratio and roa as they are.
FinancialData(fetcher, data) ==
    IF fetcher = "licensed"
    THEN [present |-> {f \in {"pbr", "per", "roe", "equity_ratio", "roa"} :
                          data[f] # NULL},
          vals |-> [f \in FMFields |->
                       IF f \in {"pbr", "per", "roe", "equity_ratio", "roa"}
                       THEN data[f] ELSE NULL]]
    ELSE LET equity_ratio == EquityRatioOf(data.debt_to_equity)
         IN  [present |-> {f \in {"pbr", "per", "roe"} : data[f] # NULL}
                          \cup (IF equity_ratio \notin {NULL, 0}
                                THEN {"equity_ratio"} ELSE {}),
              vals |-> [f \in FMFields |->
                           IF f \in {"pbr", "per"} THEN data[f]
                           ELSE IF f = "roe"
                           THEN (IF data.roe # NULL /\ data.roe > RatioOne
                                 THEN data.roe \div 100 ELSE data.roe)
                           ELSE IF f = "equity_ratio" /\ equity_ratio \notin {NULL, 0}
                           THEN equity_ratio
                           ELSE NULL]]

\* _update_company_info: Company.update(company_id, sector=..., market=...)
\* with the texts of the two that the fetcher gave
CompanyUpdate(cs, company_id, data) ==
    {IF c.id = company_id
     THEN [c EXCEPT !.sector = IF data.sector # "" THEN data.sector ELSE @,
                    !.market = IF data.market # "" THEN data.market ELSE @]
     ELSE c : c \in cs}

\* the dictionary process_company_data returns
BatchResult(company, status, message, data_updated, latest_price, price_date) ==
    [company_id |-> company.id, symbol |-> company.symbol, status |-> status,
     message |-> message, data_updated |-> data_updated, latest_price |-> latest_price,
     price_date |-> price_date]

\* the number of companies of the symbol list of a route that were processed
RouteProcessed(b) == Len(b.results) - (Len(b.requested) - Len(b.companies))

\* the number of companies of the list that were processed
CompaniesProcessed(b) ==
    IF b.requested = <<>> THEN Len(b.results) ELSE RouteProcessed(b)

\* the company process_company_data is called with next, or is working on
CurrentCompany(b) == b.companies[CompaniesProcessed(b) + 1]

\* process_company_data returns: the result is appended and one counter
\* goes up
Returned(b, result, counter) ==
    [b EXCEPT !.results = Append(@, result),
              !.success_count = IF counter = "success" THEN @ + 1 ELSE @,
              !.error_count = IF counter = "error" THEN @ + 1 ELSE @,
              !.skip_count = IF counter = "skipped" THEN @ + 1 ELSE @,
              !.step = "next"]

\* the processor when process_company_data is called
Called(b) ==
    [b EXCEPT !.fetched = NoRow, !.price_status = "none", !.fm_status = "none",
              !.periods = <<>>, !.stats = NoStatistic, !.fetch_calls = 0,
              !.found_id = NULL]

\* process_company_data with a skip that is not counted.
ProcessCompanyDataSkipUncounted(b, sp, company, td) ==
    IF ~b.force_update /\ ~ShouldUpdateData(sp, company.id, td)
    THEN Returned(Called(b),
                  BatchResult(company, "skipped", "up_to_date", FALSE, NULL, NULL),
                  "none")
    ELSE [Called(b) EXCEPT !.step = "fetch"]

\* process_company_data(company, force_update) up to the fetcher call:
\* without force_update the SELECT of should_update_data, after which it
\* returns 'skipped' or calls fetcher.get_stock_info
ProcessCompanyData(b, sp, company, td) ==
    IF ~b.force_update /\ ~ShouldUpdateData(sp, company.id, td)
    THEN Returned(Called(b),
                  BatchResult(company, "skipped", "up_to_date", FALSE, NULL, NULL),
                  "skipped")
    ELSE [Called(b) EXCEPT !.step = "fetch"]

\* the end of process_company_data: 'success' whatever the two
\* reconciliations answered; data_updated tells that one of them did not
\* raise
Succeeded(b) ==
    Returned(b, BatchResult(CurrentCompany(b), "success", "updated",
                            b.price_status # "raised" \/ b.fm_status # "raised",
                            b.fetched.price, b.fetched.price_date),
             "success")

\* after _update_price_statistics: _update_company_info when the fetcher
\* gave a sector or a market
AfterPriceStatistics(b) ==
    IF b.fetched.sector # "" \/ b.fetched.market # ""
    THEN [b EXCEPT !.step = "company_update", !.periods = <<>>,
                   !.stats = NoStatistic]
    ELSE Succeeded([b EXCEPT !.periods = <<>>, !.stats = NoStatistic])

\* after one update_statistics call of _update_price_statistics
AfterUpdateStatistics(b) ==
    IF Len(b.periods) > 1
    THEN [b EXCEPT !.step = "stat_select", !.periods = Tail(@),
                   !.stats = NoStatistic]
    ELSE AfterPriceStatistics(b)

\* after _update_financial_metrics: _update_price_statistics, for the
\* month and the year of datetime.now()
AfterFinancialMetrics(b, td) ==
    [b EXCEPT !.step = "stat_select", !.periods = StatPeriods(td)]

\* after _update_stock_price: _update_financial_metrics, which calls
\* create_or_update when it mapped a field
AfterStockPrice(b, td) ==
    IF FinancialData(b.fetcher, b.fetched).present # {}
    THEN [b EXCEPT !.step = "fm_select"]
    ELSE AfterFinancialMetrics(b, td)

\* the symbols in the order of ORDER BY symbol
SymbolsInOrder == <<"7203", "9999">>

\* get_all_companies: company_model.search(), ORDER BY symbol
RECURSIVE CompaniesFrom(_, _)
CompaniesFrom(cs, symbols) ==
    IF symbols = <<>> THEN <<>>
    ELSE (IF CompanyBySymbol(cs, Head(symbols)) = {} THEN <<>>
          ELSE <<FirstRow(CompanyBySymbol(cs, Head(symbols)))>>)
         \o CompaniesFrom(cs, Tail(symbols))

GetAllCompanies(cs) == CompaniesFrom(cs, SymbolsInOrder)

\* companies[:max_companies] when max_companies is given and not 0
Limited(list, max_companies) ==
    IF max_companies = NULL \/ max_companies = 0 THEN list
    ELSE SubSeq(list, 1, Min({max_companies, Len(list)}))

\* the date two days before BatchToday
BatchOldDate == Min(BatchDates)

\* a result that carries a price, a date and a volume only
Quote(symbol, price, price_date) ==
    Fetched("data", symbol, price, price_date, 0, NoInfo)

\* the result of StockDataFetcher for a quote of 100.020 of the oldest
\* date with pbr 1.0, per 15.0, roe 15 (%), debt_to_equity 1.0, a sector
\* and the market 'Tosho'
FreeQuote(symbol) ==
    Fetched("data", symbol, 100020, BatchOldDate, 0,
            [NoInfo EXCEPT !.sector = "s", !.market = "Tosho",
                           !.pbr = RatioOne, !.per = 15 * RatioOne,
                           !.roe = 15 * RatioOne, !.debt_to_equity = RatioOne])

\* no statement: the list is empty, the status is not 200 or the request
\* raised
NoStatement ==
    [TypeOfCurrentPeriod |-> "none", EquityToAssetRatio |-> NULL,
     Profit |-> NULL, Equity |-> NULL, TotalAssets |-> NULL, Shares |-> NULL,
     TreasuryStock |-> NULL]

\* a statement of /fins/statements: equity ratio 0.5, equity 200, total
\* assets 400, its profit and the number of issued shares (1 of them
\* treasury stock)
FinStatement(type, profit, shares) ==
    [TypeOfCurrentPeriod |-> type, EquityToAssetRatio |-> RatioOne \div 2,
     Profit |-> profit, Equity |-> 200, TotalAssets |-> 400, Shares |-> shares,
     TreasuryStock |-> IF shares = NULL THEN NULL ELSE 1]

\* the ratios _get_financial_statements computes from the statement and
\* the price it has: equity_ratio as the statement gives it,
\* roe = Profit / Equity, roa = Profit / TotalAssets and, when a price and
\* the number of shares are there, pbr = market_cap / Equity and
\* per = market_cap / Profit with market_cap = price * (shares - treasury)
FinancialStatements(annual_data, current_price) ==
    IF annual_data = NoStatement
    THEN NoInfo
    ELSE LET profit == annual_data.Profit
             equity == annual_data.Equity
             total_assets == annual_data.TotalAssets
             given(x) == x \notin {NULL, 0}
             effective_shares == annual_data.Shares
                                 - (IF given(annual_data.TreasuryStock)
                                    THEN annual_data.TreasuryStock ELSE 0)
             \* in thousandths of a yen
             market_cap == IF given(current_price) /\ given(annual_data.Shares)
                           THEN current_price * effective_shares
                           ELSE NULL
         IN  [NoInfo EXCEPT
                 !.equity_ratio = IF given(annual_data.EquityToAssetRatio)
                                  THEN annual_data.EquityToAssetRatio ELSE NULL,
                 !.roe = IF given(profit) /\ given(equity)
                         THEN (profit * RatioOne) \div equity ELSE NULL,
                 !.roa = IF given(profit) /\ given(total_assets)
                         THEN (profit * RatioOne) \div total_assets ELSE NULL,
                 !.pbr = IF market_cap # NULL /\ given(equity)
                         THEN (market_cap * (RatioOne \div 1000)) \div equity
                         ELSE NULL,
                 !.per = IF market_cap # NULL /\ given(profit)
                         THEN (market_cap * (RatioOne \div 1000)) \div profit
                         ELSE NULL]

\* the annual statement the licensed fetcher of the processor got: profit
\* 20, 3 issued shares
LicensedStatement == FinStatement("FY", 20, 3)

\* What JQuantsDataFetcher holds when its requests gave a quote of 100.020
\* of the oldest date, a market and the annual statement, and no current
\* price: roe 0.1, equity_ratio 0.5, roa 0.05, no pbr and no per
LicensedQuote(symbol) ==
    Fetched("data", symbol, 100020, BatchOldDate, 0,
            [FinancialStatements(LicensedStatement, NULL)
                EXCEPT !.market = "Tosho Prime"])

\* _get_financial_statements reads the store before get_stock_info
\* returns: it has a statement and none of its requests gave a price
ReadsStore(fetcher, fetched) ==
    fetcher = "licensed" /\ fetched = LicensedQuote(fetched.symbol)

\* the fetcher was not called
NotFetched(symbol) == Fetched("none", symbol, NULL, NULL, 0, NoInfo)

\* What the fetcher may answer for a symbol.  For "7203": nothing, an
\* exception, a quote with price 0, with a negative price, with no price,
\* with no date, with the date '2024-02-30', with no symbol, a quote of
\* 100.000 for every date, and the quote of the fetcher with its financial
\* fields.  For the other symbols: nothing, an exception, a quote for
\* today.
FetchOutcomes(symbol, fetcher) ==
    {NotFetched(symbol),
     Fetched("raise", symbol, NULL, NULL, 0, NoInfo),
     Quote(symbol, 100000, BatchToday)}
    \cup (IF symbol # "7203" THEN {}
          ELSE {Quote(symbol, 0, BatchToday),
                Quote(symbol, -100000, BatchToday),
                Quote(symbol, NULL, BatchToday),
                Quote(symbol, 100000, NULL),
                Quote(symbol, 100000, 20240230),
                Quote(NoneStr, 100000, BatchToday),
                IF fetcher = "licensed" THEN LicensedQuote(symbol)
                ELSE FreeQuote(symbol)}
               \cup {Quote(symbol, 100000, d) : d \in BatchDates})

\* The requests of get_stock_info have answered, without the "except
\* Exception" of process_company_data: the exception leaves the method.
ProcessFetchedUncaught(b, company, fetched) ==
    LET c == [b EXCEPT !.fetch_calls = 1, !.fetched = fetched]
    IN  IF fetched.kind = "raise"
        THEN [c EXCEPT !.pc = "aborted"]
        ELSE IF ReadsStore(b.fetcher, fetched)
        THEN [c EXCEPT !.step = "fetch_search"]
        ELSE [c EXCEPT !.step = "validate"]

\* The requests of fetcher.get_stock_info(symbol) have answered: an
\* exception that leaves the call is caught by process_company_data and
\* gives 'error'; the licensed fetcher that has a statement and no price
\* goes on to read the store; otherwise the call returns.
ProcessFetched(b, company, fetched) ==
    LET c == [b EXCEPT !.fetch_calls = 1, !.fetched = fetched]
    IN  IF fetched.kind = "raise"
        THEN Returned(c, BatchResult(company, "error", "exception", FALSE,
                                     NULL, NULL), "error")
        ELSE IF ReadsStore(b.fetcher, fetched)
        THEN [c EXCEPT !.step = "fetch_search"]
        ELSE [c EXCEPT !.step = "validate"]

\* company_model.search(symbol=symbol) of _get_financial_statements,
\* called by get_stock_info(symbol): without a company the call returns
\* with no pbr and no per
FetcherCompanySearch(b, cs, symbol) ==
    LET found == CompaniesFrom({c \in cs : c.symbol = symbol}, SymbolsInOrder)
    IN  IF found = <<>> THEN [b EXCEPT !.step = "validate"]
        ELSE [b EXCEPT !.step = "fetch_latest", !.found_id = found[1].id]

\* stock_price_model.get_latest_price(company_id) of
\* _get_financial_statements: pbr and per are computed from the latest
\* stored price, and get_stock_info returns
FetcherLatestPrice(b, sp) ==
    LET latest == LatestPrice(sp, b.found_id)
        info == FinancialStatements(LicensedStatement,
                                    IF latest = {} THEN NULL
                                    ELSE FirstRow(latest).price)
    IN  [b EXCEPT !.step = "validate", !.fetched.pbr = info.pbr,
                  !.fetched.per = info.per]

\* process_company_data after get_stock_info returned: 'error' when it
\* returned None and when validate_stock_data rejects the data, else
\* _update_stock_price
ProcessValidation(b, company) ==
    IF b.fetched.kind = "none"
    THEN Returned(b, BatchResult(company, "error", "fetch_failed", FALSE,
                                 NULL, NULL), "error")
    ELSE IF ~ValidateStockData(b.fetched)
    THEN Returned(b, BatchResult(company, "error", "invalid_data", FALSE,
                                 NULL, NULL), "error")
    ELSE [b EXCEPT !.step = "price_select"]

----------------------------------------------------------------------------
(* The steps of a run of the processor.  A run is one request to the       *)
(* server; the statements of process_company_data are steps of their own,  *)
(* and the statements of other requests interleave with them.              *)

\* the fetched quote as a price row, with what the fetcher call did and
\* the symbol it carries
FetchedRow(company_id, fetched) ==
    [company_id |-> company_id, price_date |-> fetched.price_date,
     price |-> fetched.price, volume |-> fetched.volume,
     kind |-> fetched.kind, symbol |-> fetched.symbol]

\* the start of process_all_companies: counters reset, the company list
\* read and cut to max_companies; with no company it returns at once
BatchStart(fetcher, force_update, max_companies) ==
    LET list == GetAllCompanies(companies)
    IN  /\ batch.pc \notin BatchBusy
        /\ callCount < MaxCalls
        /\ callCount' = callCount + 1
        /\ batch' = IF list = <<>>
                    THEN [NoBatch EXCEPT !.pc = "empty", !.fetcher = fetcher]
                    ELSE [NoBatch EXCEPT !.pc = "running",
                                         !.fetcher = fetcher,
                                         !.force_update = force_update,
                                         !.companies = Limited(list, max_companies)]
        /\ last' = Last("batch_start", "started", 0, "none", NoRow, FALSE)
        /\ UNCHANGED <<storeVars, tokenVars, connVars, fetchVars, calls>>

\* JQuantsBatchProcessor.process_all_companies with get_api_status()
\* answering available = False: it returns before reading the companies
BatchStartUnavailable ==
    /\ batch.pc \notin BatchBusy
    /\ callCount < MaxCalls
    /\ callCount' = callCount + 1
    /\ batch' = [NoBatch EXCEPT !.pc = "unavailable", !.fetcher = "licensed"]
    /\ last' = Last("batch_start", "unavailable", 0, "none", NoRow, FALSE)
    /\ UNCHANGED <<storeVars, tokenVars, connVars, fetchVars, calls>>

\* the last operation of a statement of process_company_data that leaves
\* the processor as b: status is 'success' when the method returned, pre
\* the answer of the price reconciliation, row the fetched quote
Statement(b) ==
    Last("batch_statement", IF b.step = "next" THEN "success" ELSE "running",
         1, b.price_status,
         FetchedRow(CurrentCompany(batch).id, batch.fetched), FALSE)

\* the last operation of a step of process_company_data before its first
\* write that leaves the processor as b: status is the status of the
\* result when the method returned, rowcount the number of fetcher calls,
\* row what the fetcher has got
FetchStep(op, b) ==
    Last(op, IF b.step = "next" /\ b.pc = "running"
             THEN b.results[Len(b.results)].status ELSE "running",
         b.fetch_calls, "none",
         FetchedRow(CurrentCompany(batch).id,
                    IF b.fetched = NoRow
                    THEN NotFetched(CurrentCompany(batch).symbol)
                    ELSE b.fetched),
         FALSE)

\* one turn of the loop: process_company_data is called for the next
\* company and runs up to the call of the fetcher
BatchCompany ==
    /\ batch.pc = "running" /\ batch.step = "next"
    /\ CompaniesProcessed(batch) < Len(batch.companies)
    /\ LET b == ProcessCompanyData(batch, stock_prices, CurrentCompany(batch),
                                   today)
       IN  /\ batch' = b
           /\ last' = FetchStep(IF batch.requested = <<>> THEN "batch_company"
                                ELSE "route_company", b)
    /\ UNCHANGED <<storeVars, tokenVars, connVars, fetchVars, callVars>>

\* the requests of fetcher.get_stock_info have answered
BatchFetch(fetched) ==
    /\ batch.pc = "running" /\ batch.step = "fetch"
    /\ fetched \in FetchOutcomes(CurrentCompany(batch).symbol, batch.fetcher)
    /\ LET b == ProcessFetched(batch, CurrentCompany(batch), fetched)
       IN  /\ batch' = b
           /\ last' = FetchStep("batch_fetch", b)
    /\ UNCHANGED <<storeVars, tokenVars, connVars, fetchVars, callVars>>

\* the SELECT of the companies by the licensed fetcher
BatchFetchSearch ==
    /\ batch.pc = "running" /\ batch.step = "fetch_search"
    /\ LET b == FetcherCompanySearch(batch, companies,
                                     CurrentCompany(batch).symbol)
       IN  /\ batch' = b
           /\ last' = FetchStep("batch_search", b)
    /\ UNCHANGED <<storeVars, tokenVars, connVars, fetchVars, callVars>>

\* the SELECT of the latest price by the licensed fetcher
BatchFetchLatest ==
    /\ batch.pc = "running" /\ batch.step = "fetch_latest"
    /\ LET b == FetcherLatestPrice(batch, stock_prices)
       IN  /\ batch' = b
           /\ last' = FetchStep("batch_latest", b)
    /\ UNCHANGED <<storeVars, tokenVars, connVars, fetchVars, callVars>>

\* get_stock_info has returned: the None test and the validation
BatchValidate ==
    /\ batch.pc = "running" /\ batch.step = "validate"
    /\ LET b == ProcessValidation(batch, CurrentCompany(batch))
       IN  /\ batch' = b
           /\ last' = FetchStep("batch_validate", b)
    /\ UNCHANGED <<storeVars, tokenVars, connVars, fetchVars, callVars>>

\* _update_stock_price up to the SELECT of create_or_update: with a row of
\* the key the method returns 'unchanged' or 'warning', without one the
\* INSERT follows
UpdateStockPrice ==
    LET company == CurrentCompany(batch)
        d == batch.fetched
        res == StockPriceCreateOrUpdate(stock_prices, company.id, d.price,
                                        d.price_date, d.volume, today)
        b == IF res.status = "created"
             THEN [batch EXCEPT !.step = "price_insert"]
             ELSE AfterStockPrice([batch EXCEPT !.price_status = res.status],
                                  today)
    IN  /\ batch.pc = "running" /\ batch.step = "price_select"
        /\ stock_prices' = IF res.status = "created" THEN stock_prices
                           ELSE res.table
        /\ batch' = b
        /\ last' = Statement(b)
        /\ UNCHANGED <<companies, financial_metrics, price_statistics, today>>
        /\ UNCHANGED <<tokenVars, connVars, fetchVars, callVars>>

\* The INSERT of create_or_update: with a row of the key committed since
\* the SELECT it raises, and _update_stock_price answers success False
UpdateStockPriceInsert ==
    LET company == CurrentCompany(batch)
        d == batch.fetched
        ins == StockPriceInsert(stock_prices,
                                PriceRow(company.id, d.price_date, d.price,
                                         d.volume))
        b == AfterStockPrice([batch EXCEPT !.price_status =
                                 IF ins.raised THEN "raised" ELSE "created"],
                             today)
    IN  /\ batch.pc = "running" /\ batch.step = "price_insert"
        /\ stock_prices' = ins.table
        /\ batch' = b
        /\ last' = Statement(b)
        /\ UNCHANGED <<companies, financial_metrics, price_statistics, today>>
        /\ UNCHANGED <<tokenVars, connVars, fetchVars, callVars>>

\* _update_financial_metrics up to the SELECT of create_or_update, with
\* report_date the date of the quote
UpdateFinancialMetrics ==
    LET company == CurrentCompany(batch)
        d == batch.fetched
        res == FinancialMetricsCreateOrUpdate(financial_metrics, company.id,
                   d.price_date, FinancialData(batch.fetcher, d), today)
        b == IF res.status = "created"
             THEN [batch EXCEPT !.step = "fm_insert"]
             ELSE AfterFinancialMetrics([batch EXCEPT !.fm_status = res.status],
                                        today)
    IN  /\ batch.pc = "running" /\ batch.step = "fm_select"
        /\ financial_metrics' = IF res.status = "created" THEN financial_metrics
                                ELSE res.table
        /\ batch' = b
        /\ last' = Statement(b)
        /\ UNCHANGED <<companies, stock_prices, price_statistics, today>>
        /\ UNCHANGED <<tokenVars, connVars, fetchVars, callVars>>

\* The INSERT of FinancialMetrics.create_or_update
UpdateFinancialMetricsInsert ==
    LET company == CurrentCompany(batch)
        d == batch.fetched
        ins == FinancialMetricsInsert(financial_metrics,
                   FMRow(company.id, d.price_date,
                         FinancialData(batch.fetcher, d)))
        b == AfterFinancialMetrics([batch EXCEPT !.fm_status =
                                       IF ins.raised THEN "raised" ELSE "created"],
                                   today)
    IN  /\ batch.pc = "running" /\ batch.step = "fm_insert"
        /\ financial_metrics' = ins.table
        /\ batch' = b
        /\ last' = Statement(b)
        /\ UNCHANGED <<companies, stock_prices, price_statistics, today>>
        /\ UNCHANGED <<tokenVars, connVars, fetchVars, callVars>>

\* update_statistics of _update_price_statistics up to its SELECT
UpdatePriceStatistics ==
    LET company == CurrentCompany(batch)
        k == Head(batch.periods)
        s == SelectStatistics(stock_prices, company.id, k.period_type,
                              k.period_value)
        b == IF s = NoStatistic THEN AfterUpdateStatistics(batch)
             ELSE [batch EXCEPT !.step = "stat_write", !.stats = s]
    IN  /\ batch.pc = "running" /\ batch.step = "stat_select"
        /\ price_statistics' =
              IF s = NoStatistic
              THEN UpdateStatistics(price_statistics, stock_prices, company.id,
                                    k.period_type, k.period_value)
              ELSE price_statistics
        /\ batch' = b
        /\ last' = Statement(b)
        /\ UNCHANGED <<companies, stock_prices, financial_metrics, today>>
        /\ UNCHANGED <<tokenVars, connVars, fetchVars, callVars>>

\* the INSERT OR REPLACE of update_statistics
UpdatePriceStatisticsWrite ==
    LET b == AfterUpdateStatistics(batch)
    IN  /\ batch.pc = "running" /\ batch.step = "stat_write"
        /\ price_statistics' = WriteStatistics(price_statistics, batch.stats)
        /\ batch' = b
        /\ last' = Statement(b)
        /\ UNCHANGED <<companies, stock_prices, financial_metrics, today>>
        /\ UNCHANGED <<tokenVars, connVars, fetchVars, callVars>>

\* _update_company_info: the UPDATE of the company
UpdateCompanyInfo ==
    LET company == CurrentCompany(batch)
        b == Succeeded(batch)
    IN  /\ batch.pc = "running" /\ batch.step = "company_update"
        /\ companies' = CompanyUpdate(companies, company.id, batch.fetched)
        /\ batch' = b
        /\ last' = Statement(b)
        /\ UNCHANGED <<stock_prices, financial_metrics, price_statistics, today>>
        /\ UNCHANGED <<tokenVars, connVars, fetchVars, callVars>>

\* the statements of process_company_data
BatchStatement ==
    \/ UpdateStockPrice
    \/ UpdateStockPriceInsert
    \/ UpdateFinancialMetrics
    \/ UpdateFinancialMetricsInsert
    \/ UpdatePriceStatistics
    \/ UpdatePriceStatisticsWrite
    \/ UpdateCompanyInfo

\* the end of the loop: the summary
BatchFinish ==
    /\ batch.pc = "running" /\ batch.step = "next"
    /\ batch.requested = <<>>
    /\ Len(batch.results) = Len(batch.companies)
    /\ batch' = [batch EXCEPT !.pc = "done", !.total = Len(batch.companies)]
    /\ last' = Last("batch_finish", "done", Len(batch.companies), "none", NoRow, FALSE)
    /\ UNCHANGED <<storeVars, tokenVars, connVars, fetchVars, callVars>>

\* the database is empty when the server starts
InitBatch ==
    /\ companies = {}
    /\ stock_prices = {}
    /\ financial_metrics = {}
    /\ price_statistics = {}
    /\ today = BatchToday
    /\ last = NoLast
    /\ IdleToken
    /\ IdleConn
    /\ IdleBatch
    /\ IdleFetch
    /\ IdleCalls

\* the bodies of the registrations made while the processor runs: the two
\* companies without a price, and 7203 with a price of today
BatchRegistrations ==
    {data \in RegisterPayloads :
        /\ data.symbol # "" /\ data.name # "" /\ data.metrics = NoMetrics
        /\ data.price # NULL => data.symbol = "7203"}

\* the process that handles the registrations
Registrar == "p1"

\* the registrations of companies with the bodies of payloads, up to the
\* write of the company
RegisterCompanies(payloads) ==
    \/ \E data \in payloads : RegisterCompany(Registrar, data)
    \/ RegisterCompanyCreate(Registrar)
    \/ RegisterCompanyUpdate(Registrar)

\* the statements of a registration with a price
RegisterPrices ==
    \/ RegisterPrice(Registrar)
    \/ Statistics(Registrar)

\* the steps of process_company_data before its first write
BatchFetching ==
    \/ \E s \in Symbols, k \in Fetchers : \E fetched \in FetchOutcomes(s, k) :
          BatchFetch(fetched)
    \/ BatchFetchSearch
    \/ BatchFetchLatest
    \/ BatchValidate

\* a step of the processor
BatchTurn ==
    \/ BatchCompany
    \/ BatchFetching
    \/ BatchStatement

NextBatch ==
    \/ RegisterCompanies(BatchRegistrations)
    \/ RegisterPrices
    \/ \E k \in Fetchers, f \in BOOLEAN, m \in {NULL, 1} : BatchStart(k, f, m)
    \/ BatchStartUnavailable
    \/ BatchTurn
    \/ BatchFinish

SpecBatch == InitBatch /\ [][NextBatch]_vars

----------------------------------------------------------------------------
(* Properties of the batch processor *)

ResultStatuses == {"success", "error", "skipped"}

\* the steps of process_company_data before its first write, after the
\* fetcher was called
FetchSteps == {"batch_fetch", "batch_search", "batch_latest", "batch_validate"}

\* the steps of process_company_data in a run of process_all_companies
BatchSteps == {"batch_company", "batch_statement"} \cup FetchSteps

\* C17: whatever the companies' outcomes are (the fetcher finds nothing,
\* the validation fails, an exception is raised), every call of
\* process_company_data in the loop of process_all_companies appends
\* exactly one result for the next company of the list and the run goes
\* on; the results follow the order of the list, the run is never left by
\* an exception, a next step is always possible, and the run ends with a
\* summary over the whole list.
C17_BatchNeverAborts ==
    /\ [](batch.pc \in {"running", "done"}
            => /\ Len(batch.results) <= Len(batch.companies)
               /\ \A k \in 1..Len(batch.results) :
                     /\ batch.results[k].company_id = batch.companies[k].id
                     /\ batch.results[k].status \in ResultStatuses
               /\ batch.step # "next" => Len(batch.results) < Len(batch.companies))
    /\ [](batch.pc = "done" => /\ Len(batch.results) = Len(batch.companies)
                               /\ batch.total = Len(batch.companies))
    /\ [](batch.pc # "aborted")
    /\ [](batch.pc = "running"
            => IF Len(batch.results) < Len(batch.companies)
               THEN ENABLED BatchTurn
               ELSE ENABLED BatchFinish)
    /\ [][last'.op \in BatchSteps
            => /\ batch'.pc = "running"
               /\ batch'.companies = batch.companies
               /\ IF batch'.step = "next"
                  THEN /\ Len(batch'.results) = Len(batch.results) + 1
                       /\ SubSeq(batch'.results, 1, Len(batch.results))
                            = batch.results
                  ELSE batch'.results = batch.results]_vars

\* a run over two companies ended with its summary although the first
\* company failed: the second one was still processed and succeeded
C17_Witness ==
    /\ batch.pc = "done" /\ batch.total = 2
    /\ batch.results[1].status = "error"
    /\ batch.results[2].status = "success"
    /\ batch.error_count = 1 /\ batch.success_count = 1

\* C18: a company is marked success, and counted in success_count, only
\* if its price reconciliation answered created or unchanged; when it
\* answered warning (a conflict) the result is not success and is not
\* counted as success.
C18_ConflictNotSuccess ==
    [][(last'.op = "batch_statement" /\ batch'.step = "next")
        => /\ last'.status = "success" => last'.pre \in {"created", "unchanged"}
           /\ last'.pre = "warning"
                => /\ last'.status # "success"
                   /\ batch'.success_count = batch.success_count]_vars

\* the stored price rows of the company that are at most one day older than
\* the date td
FreshPrices(sp, company_id, td) ==
    {r \in LatestPrice(sp, company_id) : r.price_date >= PrevDay(td)}

\* C19: without force_update, a company whose latest stored price date is
\* within one day of today when should_update_data reads it is skipped:
\* the fetcher is not called and no table changes; a company without
\* stored price, or any company under force_update, is not skipped.  The
\* fetcher is called only for a company that was not skipped.
C19_StalenessSkip ==
    /\ [][last'.op = "batch_company"
            => LET c == last'.row.company_id
               IN  /\ (~batch.force_update /\ FreshPrices(stock_prices, c, today) # {})
                        => /\ last'.status = "skipped"
                           /\ last'.rowcount = 0
                           /\ batch'.step = "next"
                           /\ batch'.skip_count = batch.skip_count + 1
                           /\ UNCHANGED storeVars
                   /\ (batch.force_update \/ LatestPrice(stock_prices, c) = {})
                        => /\ last'.status # "skipped"
                           /\ batch'.step = "fetch"]_vars
    /\ [][(batch'.step = "fetch" /\ batch.step # "fetch")
            => /\ last'.op = "batch_company"
               /\ last'.status # "skipped"
               /\ \/ batch.force_update
                  \/ FreshPrices(stock_prices, last'.row.company_id, today) = {}]_vars
    /\ [][batch'.fetch_calls > batch.fetch_calls
            => /\ last'.op = "batch_fetch"
               /\ batch.step = "fetch"]_vars

\* a company whose latest price is dated yesterday was skipped
C19_Witness ==
    /\ last.op = "batch_company" /\ last.status = "skipped"
    /\ ~batch.force_update
    /\ \E r \in LatestPrice(stock_prices, last.row.company_id) :
           r.price_date = PrevDay(today)

\* C20: after the batch processor reconciled a price observation it runs
\* update_statistics for monthly, yearly and all_time in this order, with
\* the month and the year of the observation's own date.
C20_StatisticsOfObservationDate ==
    [][(last'.op = "batch_statement" /\ batch'.periods # <<>>)
        => LET periods == StatPeriods(batch'.fetched.price_date)
           IN  /\ batch.periods = <<>> => batch'.periods = periods
               /\ \E n \in 1..3 : batch'.periods = SubSeq(periods, n, 3)]_vars

----------------------------------------------------------------------------
(* Statistics aggregation (PriceStatistics.update_statistics) over prices  *)
(* of several dates, written through POST /api/data/stock_price/safe.      *)

\* (price_date, price) of the request bodies: the route stores the price it
\* is given, 0 included; 100.000 and 120.000
StatsQuotes ==
    {<<20231220, 0>>, <<20231220, 100000>>, <<20240105, 100000>>,
     <<20240120, 100000>>, <<20240120, 120000>>}

\* (period_type, period_value) of an aggregation: the months and years of
\* StatsDates, a month and a year without prices, and all_time
StatsPeriods ==
    {<<"monthly", 202312>>, <<"monthly", 202401>>, <<"monthly", 202402>>,
     <<"yearly", 2023>>, <<"yearly", 2024>>, <<"all_time", AllPeriod>>}

NextStats ==
    \/ \E p \in Procs, q \in StatsQuotes : AddStockPriceSafe(p, 1, q[2], q[1], 0)
    \/ \E p \in Procs : AddStockPriceSafe(p, 2, 100000, 20240105, 0)
    \/ \E p \in Procs : PriceInsert(p)
    \/ \E p \in Procs : Statistics(p)
    \/ \E p \in Procs, q \in StatsQuotes : ForceUpdateStockPrice(p, 1, q[2], q[1], 0)
    \/ \E p \in Procs : ForceUpdateWrite(p)
    \/ \E p \in Procs, k \in StatsPeriods : Aggregate(p, 1, k[1], k[2])
    \/ \E p \in Procs : Aggregate(p, 2, "monthly", 202401)

SpecStats == InitStore /\ [][NextStats]_vars

\* the prices of a company that fall in a period
PricesInPeriod(sp, k) ==
    {r \in sp : r.company_id = k.company_id
                /\ InPeriod(r.price_date, k.period_type, k.period_value)}

StatsOfKey(ps, k) ==
    PriceStatisticsConflict(ps, k.company_id, k.period_type, k.period_value)

\* the stored statistic s is the minimum, the maximum and the arithmetic
\* mean of the prices of rows
IsStatisticOf(s, rows) ==
    /\ \E r \in rows : r.price = s.min_price
    /\ \A r \in rows : s.min_price <= r.price
    /\ \E r \in rows : r.price = s.max_price
    /\ \A r \in rows : r.price <= s.max_price
    /\ s.avg_price.num * Cardinality(rows) = SumPrices(rows) * s.avg_price.den

\* the step ran the SELECT of an aggregation
AggregateRead ==
    /\ last'.op \in {"aggregate", "stat_select"}
    /\ last'.status \in {"none", "found"}

\* the SELECT of the aggregation of k returned the minimum, the maximum and
\* the mean of the prices of the period, and its INSERT OR REPLACE follows
AggregateSelected(k) ==
    /\ last'.status = "found"
    /\ price_statistics' = price_statistics
    /\ \E p \in Procs :
          /\ calls'[p].pc = "stat_write"
          /\ calls'[p] # calls[p]
          /\ StatKey(calls'[p].stats.company_id, calls'[p].stats.period_type,
                     calls'[p].stats.period_value) = k
          /\ IsStatisticOf(calls'[p].stats, PricesInPeriod(stock_prices, k))

\* the step left the aggregate its SELECT returned as the one statistic of
\* k, and the statistics of the other keys as they were
AggregateWritten(k) ==
    /\ \E p \in Procs :
          /\ calls[p].pc = "stat_write"
          /\ calls'[p] # calls[p]
          /\ StatsOfKey(price_statistics', k) = {calls[p].stats}
    /\ price_statistics' \ StatsOfKey(price_statistics', k)
         = price_statistics \ StatsOfKey(price_statistics, k)

AggregateCorrect(k) ==
    /\ AggregateRead => AggregateSelected(k)
    /\ last'.status = "written" => AggregateWritten(k)

\* C21: an aggregation of a period that holds at least one price of the
\* company leaves exactly one statistic for the key, whose min_price,
\* max_price and avg_price are the minimum, the maximum and the arithmetic
\* mean of the company's prices in the period (the prices its SELECT reads);
\* the statistics of other keys are unchanged.
C21_AggregateCorrect ==
    [][/\ (AggregateRead /\ PricesInPeriod(stock_prices, last'.row) # {})
            => AggregateCorrect(last'.row)
       /\ (last'.op = "aggregate" /\ last'.status = "written")
            => AggregateCorrect(last'.row)]_vars

\* the same for the periods whose lowest price is not 0
C21_NonZeroMinimum ==
    [][/\ (/\ AggregateRead
           /\ PricesInPeriod(stock_prices, last'.row) # {}
           /\ \A r \in PricesInPeriod(stock_prices, last'.row) : r.price # 0)
            => AggregateCorrect(last'.row)
       /\ (last'.op = "aggregate" /\ last'.status = "written")
            => AggregateCorrect(last'.row)]_vars

\* prices 100 and 120 of 2024-01 were aggregated to min 100, max 120,
\* avg 110, replacing a statistic of the month that held other values
C21_Example ==
    /\ last.op = "aggregate" /\ last.status = "written"
    /\ last.row = StatKey(1, "monthly", 202401)
    /\ {r.price : r \in PricesInPeriod(stock_prices, last.row)} = {100000, 120000}
    /\ StatsOfKey(price_statistics, last.row)
         = {[company_id |-> 1, period_type |-> "monthly", period_value |-> 202401,
             min_price |-> 100000, max_price |-> 120000,
             avg_price |-> [num |-> 110000, den |-> 1]]}

\* C22: an aggregation of a period in which its SELECT finds no price of
\* the company returns 0 there and changes no statistic: none is written,
\* changed or removed, a stored statistic of the same key included.
C22_AggregateNoOp ==
    [][(AggregateRead /\ PricesInPeriod(stock_prices, last'.row) = {})
       => /\ last'.op = "aggregate"
          /\ last'.status = "none"
          /\ last'.rowcount = 0
          /\ price_statistics' = price_statistics
          /\ \A p \in Procs : calls'[p].pc = "stat_write" => calls'[p] = calls[p]]_vars

\* an aggregation found no price in February 2024 and wrote no statistic
\* of that month, while the statistics of the company's January and year
\* 2024 are stored
C22_Witness ==
    /\ last.op = "aggregate" /\ last.status = "none"
    /\ last.row = StatKey(1, "monthly", 202402)
    /\ PricesInPeriod(stock_prices, last.row) = {}
    /\ StatsOfKey(price_statistics, last.row) = {}
    /\ StatsOfKey(price_statistics, StatKey(1, "monthly", 202401)) # {}
    /\ StatsOfKey(price_statistics, StatKey(1, "yearly", 2024)) # {}

----------------------------------------------------------------------------
(* StockDataFetcher.get_stock_info (backend/utils/stock_data_fetcher.py), *)
(* one turn of its retry loop per step.                                    *)

\* self.max_retries
MaxRetries == 3

\* self.retry_delays, in seconds
RetryDelays == <<2, 5, 10>>

\* round(float(latest_data['Close']), 2) of a price in thousandths that is
\* not halfway between two hundredths
Round2(p) == ((p + 5) \div 10) * 10

\* The entries of ticker.info that the result is made of; an entry that is
\* missing is "" for the two texts and NULL for the four numbers, as
\* info.get gives them.
PlainInfo ==
    [sector |-> "", exchange |-> "", priceToBook |-> NULL, trailingPE |-> NULL,
     returnOnEquity |-> NULL, debtToEquity |-> NULL]

\* an info with sector 's', an exchange, priceToBook 1.0, trailingPE 15.0,
\* returnOnEquity 0.15 and debtToEquity 1.0
FullInfo(exchange) ==
    [sector |-> "s", exchange |-> exchange, priceToBook |-> RatioOne,
     trailingPE |-> 15 * RatioOne, returnOnEquity |-> (15 * RatioOne) \div 100,
     debtToEquity |-> RatioOne]

\* exchange.upper() of the exchange texts of the answers
Upper(exchange) ==
    IF exchange = "jpx" THEN "JPX"
    ELSE IF exchange = "tyo" THEN "TYO"
    ELSE exchange

\* _get_market_name: the name of the Tokyo exchange (written "Tosho" here)
\* for its five codes in any case, every other text as it is
GetMarketName(exchange) ==
    IF Upper(exchange) \in {"TSE", "TYO", "JPX", "TSE.T", "TOKYO"} THEN "Tosho"
    ELSE exchange

\* What the remote source answers to one turn: info and a price history
\* ("data", with the last close, which can be 0, and the last volume, which
\* is NULL when it is NaN), an info of fewer than 3 entries ("incomplete"),
\* an empty history ("empty_history"), HTTP 429 ("rate_limited"), another
\* HTTP error ("http_error") or any other exception ("exception").
RemoteAnswer(kind, close, price_date, volume, info) ==
    [kind |-> kind, close |-> close, price_date |-> price_date,
     volume |-> volume, info |-> info]

FreeAnswers ==
    {RemoteAnswer("data", c, StoreToday, 0, PlainInfo) :
        c \in {0, 100000, 100004, 100006}}
    \cup {RemoteAnswer("data", 100000, StoreToday, v, FullInfo(e)) :
            v \in {NULL, 5}, e \in {"JPX", "jpx", "NMS"}}
    \cup {RemoteAnswer(k, NULL, NULL, 0, PlainInfo) :
            k \in {"incomplete", "empty_history", "rate_limited", "http_error",
                   "exception"}}

\* the result dictionary of get_stock_info for an answer with data
FreeResult(symbol, answer) ==
    Fetched("data", symbol, Round2(answer.close), answer.price_date,
            IF answer.volume = NULL THEN 0 ELSE answer.volume,
            [NoInfo EXCEPT !.sector = answer.info.sector,
                           !.market = GetMarketName(answer.info.exchange),
                           !.pbr = answer.info.priceToBook,
                           !.per = answer.info.trailingPE,
                           !.roe = answer.info.returnOnEquity,
                           !.debt_to_equity = answer.info.debtToEquity])

NotFound(symbol) == Fetched("none", symbol, NULL, NULL, 0, NoInfo)

\* A fetcher that goes on while attempt <= max_retries.
GetStockInfoTurnExtraRetry(f, answer) ==
    LET attempt == f.attempts
        price == IF answer.kind = "data" THEN Round2(answer.close) ELSE NULL
        g == [f EXCEPT !.attempts = attempt + 1,
                       !.sleeps = IF attempt > 0
                                  THEN Append(@, RetryDelays[Min({attempt, Len(RetryDelays)})])
                                  ELSE @,
                       !.jitters = IF attempt > 0 THEN @ + 1 ELSE @,
                       !.log = Append(@, IF answer.kind = "data" /\ price <= 0
                                         THEN "bad_price" ELSE answer.kind)]
    IN  IF answer.kind = "data" /\ price > 0
        THEN [g EXCEPT !.pc = "done",
                       !.result = FreeResult(f.symbol, answer)]
        ELSE IF attempt <= MaxRetries
        THEN g
        ELSE [g EXCEPT !.pc = "done", !.result = NotFound(f.symbol)]

\* One turn of "for attempt in range(self.max_retries + 1)": the sleeps of
\* a retry, the request, and either the return of the result, the next
\* turn (continue) or the return of None.
GetStockInfoTurn(f, answer) ==
    LET attempt == f.attempts
        price == IF answer.kind = "data" THEN Round2(answer.close) ELSE NULL
        g == [f EXCEPT !.attempts = attempt + 1,
                       !.sleeps = IF attempt > 0
                                  THEN Append(@, RetryDelays[Min({attempt, Len(RetryDelays)})])
                                  ELSE @,
                       !.jitters = IF attempt > 0 THEN @ + 1 ELSE @,
                       !.log = Append(@, IF answer.kind = "data" /\ price <= 0
                                         THEN "bad_price" ELSE answer.kind)]
    IN  IF answer.kind = "data" /\ price > 0
        THEN [g EXCEPT !.pc = "done",
                       !.result = FreeResult(f.symbol, answer)]
        ELSE IF attempt < MaxRetries
        THEN g
        ELSE [g EXCEPT !.pc = "done", !.result = NotFound(f.symbol)]

\* the call fetcher.get_stock_info(symbol)
FreeStart(symbol) ==
    /\ fetch.pc # "running"
    /\ fetch' = [NoFetch EXCEPT !.pc = "running", !.kind = "free",
                                !.symbol = symbol]
    /\ last' = Last("fetch_start", "started", 0, "none", NoRow, FALSE)
    /\ UNCHANGED <<storeVars, tokenVars, connVars, batchVars, callVars>>

\* one turn of the loop.  In last', status is "retry" or the kind of the
\* returned result, rowcount the number of turns made, row the answer of
\* the remote source.
FreeAttempt(answer) ==
    /\ fetch.pc = "running" /\ fetch.kind = "free"
    /\ fetch' = GetStockInfoTurn(fetch, answer)
    /\ last' = Last("fetch_attempt",
                    IF fetch'.pc = "done" THEN fetch'.result.kind ELSE "retry",
                    fetch'.attempts, "none",
                    PriceRow(NULL, answer.price_date, answer.close, answer.volume),
                    FALSE)
    /\ UNCHANGED <<storeVars, tokenVars, connVars, batchVars, callVars>>

FreeTurn == \E answer \in FreeAnswers : FreeAttempt(answer)

NextFetch ==
    \/ \E s \in Symbols : FreeStart(s)
    \/ FreeTurn

\* a call that was begun makes its next turn
SpecFetch == InitStore /\ [][NextFetch]_vars /\ WF_vars(FreeTurn)

\* C23: the free-quote fetch makes one attempt and at most 3 retries;
\* retry k is preceded by the k-th delay of 2 s, 5 s, 10 s; the first
\* attempt that succeeds ends the call with its observation; the fourth
\* failure ends it with no result; the call always ends.
C23_FetchRetries ==
    /\ [](fetch.kind = "free"
            => /\ fetch.attempts <= 4
               /\ Len(fetch.log) = fetch.attempts
               /\ fetch.sleeps = SubSeq(<<2, 5, 10>>, 1, Len(fetch.sleeps))
               /\ Len(fetch.sleeps) = (IF fetch.attempts = 0 THEN 0
                                       ELSE fetch.attempts - 1)
               /\ (fetch.pc = "done" => ~ENABLED FreeTurn))
    /\ [][last'.op = "fetch_attempt"
            => /\ fetch'.attempts = fetch.attempts + 1
               /\ IF last'.row.price # NULL /\ last'.row.price >= 5
                  THEN /\ fetch'.pc = "done"
                       /\ fetch'.result.kind = "data"
                       /\ fetch'.result.price_date = last'.row.price_date
                       /\ fetch'.result.price - last'.row.price \in -5..5
                  ELSE IF fetch'.attempts < 4
                  THEN fetch'.pc = "running"
                  ELSE fetch'.pc = "done" /\ fetch'.result.kind = "none"]_vars
    /\ (fetch.pc = "running" ~> fetch.pc = "done")

\* four attempts failed: the delays were 2 s, 5 s and 10 s and the call
\* returned no result
C23_Witness ==
    /\ fetch.kind = "free" /\ fetch.pc = "done"
    /\ fetch.result.kind = "none"
    /\ fetch.attempts = 4
    /\ fetch.sleeps = <<2, 5, 10>>

\* the second retry succeeded after two failures
C23_RetrySucceeded ==
    /\ fetch.kind = "free" /\ fetch.pc = "done"
    /\ fetch.result.kind = "data"
    /\ fetch.attempts = 3
    /\ fetch.sleeps = <<2, 5>>

----------------------------------------------------------------------------
(* JQuantsDataFetcher.get_stock_info (backend/utils/jquants_data_fetcher.py), *)
(* one request of _get_daily_quotes per step.                              *)

\* range(1, 8): the days _get_daily_quotes goes back
FallbackDays == 7

\* range(10): the days _get_latest_business_date looks at
BusinessDayLookback == 10

\* date.toordinal(): the number of the day, 0001-01-01 being day 1
RECURSIVE DaysBeforeMonth(_, _)
DaysBeforeMonth(y, m) ==
    IF m = 1 THEN 0 ELSE DaysBeforeMonth(y, m - 1) + DaysInMonth(y, m - 1)

Ordinal(d) ==
    LET y == d \div 10000
        m == (d \div 100) % 100
        dd == d % 100
    IN  (y - 1) * 365 + (y - 1) \div 4 - (y - 1) \div 100 + (y - 1) \div 400
        + DaysBeforeMonth(y, m) + dd

\* date.weekday(): 0 is Monday, 6 is Sunday
Weekday(d) == (Ordinal(d) + 6) % 7

\* _get_latest_business_date: the first of today, today - 1, ... that is
\* not a Saturday or a Sunday; the time of day is not read
GetLatestBusinessDate(td) ==
    LET open == {i \in 0..(BusinessDayLookback - 1) : Weekday(DaysBefore(td, i)) < 5}
    IN  IF open = {} THEN td ELSE DaysBefore(td, Min(open))

\* the days of the calls: Friday 2024-01-05 to Monday 2024-01-08
QuoteDays == {20240105, 20240106, 20240107, 20240108}

\* Monday 2024-01-08
QuoteToday == 20240108

\* the local hours of the calls: before and after 15:00
QuoteHours == {10, 16}

\* What the API answers to one GET /prices/daily_quotes: status 200 with a
\* quote ("quotes", with its Close, which can be null or 0, its Volume,
\* which can be null, its Sector and its MarketCode), status 200 with no
\* quote ("empty"), status 401, another status ("status_500"), or the
\* request raises ("exception").
QuoteAnswer(kind, close, volume, sector, market_code) ==
    [kind |-> kind, close |-> close, volume |-> volume, sector |-> sector,
     market_code |-> market_code]

LicensedAnswers ==
    {QuoteAnswer("quotes", c, 0, "", "9") : c \in {NULL, 0, 100000}}
    \cup {QuoteAnswer("quotes", 100000, v, "s", "0111") : v \in {NULL, 5}}
    \cup {QuoteAnswer(k, NULL, 0, "", "") :
            k \in {"empty", "status_401", "status_500", "exception"}}

\* What GET /fins/statements gives: the list "statements", newest first;
\* <<>> also stands for a status other than 200 and for a request that
\* raised
StatementLists ==
    {<<>>,
     <<FinStatement("1Q", 10, NULL), FinStatement("FY", 20, 3)>>,
     <<FinStatement("1Q", 10, NULL)>>}

\* the statement the ratios are computed from: the first of the list that
\* is annual (FY, 4Q, Annual), or the first of the list
RECURSIVE FirstAnnual(_)
FirstAnnual(statements) ==
    IF statements = <<>> THEN NoStatement
    ELSE IF Head(statements).TypeOfCurrentPeriod \in {"FY", "4Q", "Annual"}
    THEN Head(statements)
    ELSE FirstAnnual(Tail(statements))

AnnualData(statements) ==
    IF statements = <<>> THEN NoStatement
    ELSE IF FirstAnnual(statements) # NoStatement THEN FirstAnnual(statements)
    ELSE statements[1]

\* what the price request of _get_current_stock_price answers: a Close
\* (which can be null), no quote, another status, or the request raises
PriceAnswers ==
    {[kind |-> "quotes", close |-> c] : c \in {NULL, 100000}}
    \cup {[kind |-> k, close |-> NULL] : k \in {"empty", "status_500", "exception"}}

\* what one ticker.history(period) of yfinance gives: the last Close, or
\* NULL for an empty history, a NaN or an exception
HistoryAnswers == {NULL, 0, 100000}

\* the periods _get_current_stock_price asks yfinance for: 1d, 5d, 1mo
HistoryPeriods == 3

\* _get_market_name of the licensed fetcher: the names of the market codes
\* (written in Latin letters here), every other text as it is
MarketName(market_code) ==
    IF market_code \in {"0111", "TSE1", "TSE"} THEN "Tosho Prime"
    ELSE IF market_code \in {"0112", "TSE2"} THEN "Tosho Standard"
    ELSE IF market_code \in {"0113", "TSE3", "MSC"} THEN "Tosho Growth"
    ELSE IF market_code = "0121" THEN "Nagoya"
    ELSE IF market_code = "0131" THEN "New York"
    ELSE IF market_code = "0132" THEN "NASDAQ"
    ELSE IF market_code \in {"0141", "JQS", "JQG"} THEN "JASDAQ"
    ELSE IF market_code = "0151" THEN "Sapporo"
    ELSE IF market_code = "0161" THEN "Fukuoka"
    ELSE market_code

\* company_model.search(symbol=symbol): the companies whose symbol holds
\* the text (no symbol of Symbols holds another), ORDER BY symbol
CompanySearch(cs, symbol) ==
    CompaniesFrom({c \in cs : c.symbol = symbol}, SymbolsInOrder)

\* get_stock_info after _get_financial_statements returned: float(Close)
\* and int(Volume) raise on a null, the observation is dated target_date,
\* and an observation that fails validate_stock_data is not returned
MapQuote(f, quote, financial_data) ==
    LET obs == Fetched("data", f.symbol, quote.Close, f.target_date,
                       quote.Volume,
                       [financial_data EXCEPT
                           !.sector = quote.Sector,
                           !.market = MarketName(quote.MarketCode)])
    IN  [f EXCEPT !.pc = "done",
                  !.result = IF quote.Close = NULL \/ quote.Volume = NULL
                             THEN NotFound(f.symbol)
                             ELSE IF ~ValidateStockData(obs) THEN NotFound(f.symbol)
                             ELSE obs]

\* _get_financial_statements returns with the price it has, and
\* get_stock_info maps the quote
FinishQuote(f, current_price) ==
    MapQuote([f EXCEPT !.current_price = current_price], f.quote,
             FinancialStatements(f.statements, current_price))

\* the first of daily_quotes
Quote0(date, answer) ==
    [Date |-> date, Close |-> answer.close, Volume |-> answer.volume,
     Sector |-> answer.sector, MarketCode |-> answer.market_code]

\* A walk that goes back one day more.
DailyQuotesTurnLonger(f, answer) ==
    LET k == f.walk
        date == DaysBefore(f.target_date, k)
        g == [f EXCEPT !.queried = Append(@, date), !.walk = k + 1]
        none == [g EXCEPT !.pc = "done", !.result = NotFound(f.symbol)]
    IN  IF answer.kind = "quotes"
        THEN [g EXCEPT !.pc = "statements", !.quote = Quote0(date, answer)]
        ELSE IF answer.kind = "exception" THEN none
        ELSE IF k = 0 /\ answer.kind = "status_401" THEN none
        ELSE IF k < FallbackDays + 1 THEN g
        ELSE none

\* One request of _get_daily_quotes: the one for target_date, then those
\* for the 7 days before it.  A quote ends the walk, and get_stock_info
\* goes on to the financial statements; status 401 on the first request
\* and an exception on any request end the call with None; every other
\* answer goes on to the day before, and to None after the 7th.
DailyQuotesTurn(f, answer) ==
    LET k == f.walk
        date == DaysBefore(f.target_date, k)
        g == [f EXCEPT !.queried = Append(@, date), !.walk = k + 1]
        none == [g EXCEPT !.pc = "done", !.result = NotFound(f.symbol)]
    IN  IF answer.kind = "quotes"
        THEN [g EXCEPT !.pc = "statements", !.quote = Quote0(date, answer)]
        ELSE IF answer.kind = "exception" THEN none
        ELSE IF k = 0 /\ answer.kind = "status_401" THEN none
        ELSE IF k < FallbackDays THEN g
        ELSE none

\* GET /fins/statements of _get_financial_statements: without a statement
\* the method returns {} and the quote is mapped; with one, the ratios of
\* the statement are computed and the current price is asked for
FinancialStatementsTurn(f, statements) ==
    IF statements = <<>>
    THEN FinishQuote([f EXCEPT !.statements = NoStatement], NULL)
    ELSE [f EXCEPT !.pc = "current_price",
                   !.statements = AnnualData(statements)]

\* the request of _get_current_stock_price: GET /prices/daily_quotes for
\* the latest business day.  A Close that is not null or 0 is the price;
\* a request that raises ends the method with None; every other answer
\* goes on to yfinance.
CurrentStockPriceTurn(f, td, answer) ==
    LET g == [f EXCEPT !.queried = Append(@, GetLatestBusinessDate(td))]
    IN  IF answer.kind = "quotes" /\ answer.close \notin {NULL, 0}
        THEN FinishQuote(g, answer.close)
        ELSE IF answer.kind = "exception" THEN [g EXCEPT !.pc = "search"]
        ELSE [g EXCEPT !.pc = "yfinance"]

\* one ticker.history(period) of _get_current_stock_price: a Close is
\* returned as the price (a price of 0 sends _get_financial_statements to
\* the database); after the third period without one the method returns
\* None
HistoryTurn(f, close) ==
    LET g == [f EXCEPT !.histories = @ + 1]
    IN  IF close = NULL
        THEN (IF g.histories < HistoryPeriods THEN g
              ELSE [g EXCEPT !.pc = "search"])
        ELSE IF close = 0 THEN [g EXCEPT !.pc = "search", !.current_price = 0]
        ELSE FinishQuote(g, close)

\* company_model.search(symbol=symbol) of _get_financial_statements:
\* without a company there is no price
CompanySearchTurn(f, cs) ==
    LET found == CompanySearch(cs, f.symbol)
    IN  IF found = <<>> THEN FinishQuote(f, f.current_price)
        ELSE [f EXCEPT !.pc = "latest_price", !.company_id = found[1].id]

\* stock_price_model.get_latest_price(company_id) of
\* _get_financial_statements: the latest stored price is the price
LatestPriceTurn(f, sp) ==
    LET latest == LatestPrice(sp, f.company_id)
    IN  FinishQuote(f, IF latest = {} THEN f.current_price
                       ELSE FirstRow(latest).price)

\* the call fetcher.get_stock_info(symbol, date) at the given local hour;
\* authenticated: whether the client is, or can be, initialized
LicensedStart(symbol, date, hour, authenticated) ==
    /\ fetch.pc \in {"idle", "done"}
    /\ fetch' = IF ~authenticated
                THEN [NoFetch EXCEPT !.pc = "done", !.kind = "licensed",
                                     !.symbol = symbol, !.hour = hour,
                                     !.date_arg = date,
                                     !.result = NotFound(symbol)]
                ELSE [NoFetch EXCEPT !.pc = "running", !.kind = "licensed",
                                     !.symbol = symbol, !.hour = hour,
                                     !.date_arg = date,
                                     !.target_date =
                                         IF date = NULL
                                         THEN GetLatestBusinessDate(today)
                                         ELSE date]
    /\ last' = Last("fetch_start", IF authenticated THEN "started" ELSE "none",
                    0, "none", NoRow, FALSE)
    /\ UNCHANGED <<storeVars, tokenVars, connVars, batchVars, callVars>>

\* a step of the call that leaves the fetcher as f.  In last', rowcount is
\* the number of GET /prices/daily_quotes requests made, pre the step the
\* call is at.
LicensedStep(op, status, f) ==
    /\ fetch' = f
    /\ last' = Last(op, status, Len(f.queried), f.pc, NoRow, FALSE)
    /\ UNCHANGED <<storeVars, tokenVars, connVars, batchVars, callVars>>

\* one request of the walk; status is the kind of the answer
QuoteLookup(answer) ==
    /\ fetch.pc = "running" /\ fetch.kind = "licensed"
    /\ LicensedStep("quote_lookup", answer.kind, DailyQuotesTurn(fetch, answer))

\* the request for the financial statements
StatementsLookup(statements) ==
    /\ fetch.pc = "statements"
    /\ LicensedStep("statements_lookup",
                    IF statements = <<>> THEN "empty" ELSE "statements",
                    FinancialStatementsTurn(fetch, statements))

\* the request for the current price
CurrentPriceLookup(answer) ==
    /\ fetch.pc = "current_price"
    /\ LicensedStep("price_lookup", answer.kind,
                    CurrentStockPriceTurn(fetch, today, answer))

\* one request to yfinance
HistoryLookup(close) ==
    /\ fetch.pc = "yfinance"
    /\ LicensedStep("history_lookup", IF close = NULL THEN "empty" ELSE "quotes",
                    HistoryTurn(fetch, close))

\* the SELECT of the companies
CompanySearchLookup ==
    /\ fetch.pc = "search"
    /\ LicensedStep("company_search", "selected",
                    CompanySearchTurn(fetch, companies))

\* the SELECT of the latest price
LatestPriceLookup ==
    /\ fetch.pc = "latest_price"
    /\ LicensedStep("latest_price", "selected",
                    LatestPriceTurn(fetch, stock_prices))

QuoteTurn == \E answer \in LicensedAnswers : QuoteLookup(answer)

\* the steps of get_stock_info after the quote
StatementsTurn ==
    \/ \E statements \in StatementLists : StatementsLookup(statements)
    \/ \E answer \in PriceAnswers : CurrentPriceLookup(answer)
    \/ \E close \in HistoryAnswers : HistoryLookup(close)
    \/ CompanySearchLookup
    \/ LatestPriceLookup

\* the server on one of the days of the calls, with an empty database
InitDates ==
    /\ companies = {}
    /\ stock_prices = {}
    /\ financial_metrics = {}
    /\ price_statistics = {}
    /\ today \in QuoteDays
    /\ last = NoLast
    /\ IdleToken
    /\ IdleConn
    /\ IdleBatch
    /\ IdleFetch
    /\ IdleCalls

\* the server on Monday 2024-01-08
InitQuotes == InitDates /\ today = QuoteToday

\* the calls of the fetcher on one day, and the registrations that store
\* the companies and prices _get_financial_statements reads
NextQuotes ==
    \/ RegisterCompanies({data \in BatchRegistrations : data.price # NULL})
    \/ RegisterPrices
    \/ \E d \in {NULL, 20240105}, a \in BOOLEAN :
          LicensedStart("7203", d, 16, a)
    \/ QuoteTurn
    \/ StatementsTurn

SpecQuotes == InitQuotes /\ [][NextQuotes]_vars

\* the calls of the fetcher on every day and hour.  The database stays
\* empty: company_model.search finds no company and get_latest_price is
\* not reached.
NextDates ==
    \/ \E s \in Symbols, d \in {NULL, 20240105}, h \in QuoteHours, a \in BOOLEAN :
          LicensedStart(s, d, h, a)
    \/ QuoteTurn
    \/ \E statements \in StatementLists : StatementsLookup(statements)
    \/ \E answer \in PriceAnswers : CurrentPriceLookup(answer)
    \/ \E close \in HistoryAnswers : HistoryLookup(close)
    \/ CompanySearchLookup

SpecDates == InitDates /\ [][NextDates]_vars

\* the answers that are a miss: no data came back
Misses == {"empty", "status_401", "status_500"}

\* the walk of _get_daily_quotes: when the request for the first date
\* returns no data, the dates date - 1, ..., date - 7 are asked for in that
\* order; the first quote that comes back ends the walk and is the one
\* returned; the 7th miss ends the call with no result; the walk asks for
\* at most 8 dates
DateWalk ==
    /\ [](fetch.kind = "licensed"
            => /\ fetch.walk <= 8
               /\ fetch.walk <= Len(fetch.queried)
               /\ \A i \in 1..fetch.walk :
                     /\ fetch.queried[i] <= fetch.target_date
                     /\ Ordinal(fetch.queried[i]) = Ordinal(fetch.target_date) - (i - 1)
               /\ (fetch.pc # "running" => ~ENABLED QuoteTurn)
               /\ (fetch.pc = "done" /\ fetch.result.kind = "data")
                    => /\ fetch.quote.Date = fetch.queried[fetch.walk]
                       /\ fetch.result.price = fetch.quote.Close)
    /\ [][last'.op = "quote_lookup"
            => /\ fetch'.walk = fetch.walk + 1
               /\ Len(fetch'.queried) = Len(fetch.queried) + 1
               /\ last'.status = "quotes"
                    => /\ fetch'.pc = "statements"
                       /\ fetch'.quote.Date = fetch'.queried[fetch'.walk]
               /\ (last'.status \in Misses /\ fetch.walk > 0)
                    => IF fetch'.walk < 8
                       THEN fetch'.pc = "running"
                       ELSE fetch'.pc = "done" /\ fetch'.result.kind = "none"
               /\ (last'.status \in {"empty", "status_500"} /\ fetch.walk = 0)
                    => fetch'.pc = "running"]_vars

\* the dates a call asked GET /prices/daily_quotes for
DatesQueried == {fetch.queried[i] : i \in 1..Len(fetch.queried)}

\* C24 as stated: the walk is as above, and one fetch never queries more
\* than 8 dates.
C24_AtMostEightDates ==
    /\ DateWalk
    /\ [](fetch.kind = "licensed" => Cardinality(DatesQueried) <= 8)

\* C24, amended: the walk is as above and asks for at most 8 dates; after
\* the walk a fetch asks for at most one more date, the latest business
\* day of the day of the call, and only when a quote and a financial
\* statement came back.
C24_DateFallback ==
    /\ DateWalk
    /\ [](fetch.kind = "licensed"
            => /\ Len(fetch.queried) <= fetch.walk + 1
               /\ Len(fetch.queried) = fetch.walk + 1
                    => /\ fetch.queried[fetch.walk + 1] = GetLatestBusinessDate(today)
                       /\ fetch.quote.Date # NULL
                       /\ fetch.statements.TypeOfCurrentPeriod # "none")
    /\ [][last'.op \in {"statements_lookup", "history_lookup", "company_search",
                        "latest_price"}
            => fetch'.queried = fetch.queried]_vars

\* the date of 2024-01-05 and the 7 days before it had no data
C24_Witness ==
    /\ fetch.kind = "licensed" /\ fetch.pc = "done"
    /\ fetch.result.kind = "none"
    /\ fetch.queried = <<20240105, 20240104, 20240103, 20240102, 20240101,
                         20231231, 20231230, 20231229>>

\* the quote of 2024-01-03 was returned after two misses
C24_FallbackQuote ==
    /\ fetch.kind = "licensed" /\ fetch.pc = "done"
    /\ fetch.result.kind = "data"
    /\ fetch.walk = 3
    /\ SubSeq(fetch.queried, 1, 3) = <<20240105, 20240104, 20240103>>
    /\ fetch.quote.Date = 20240103

\* a call on Monday 2024-01-08 for 2024-01-05 got its quote from the 8th
\* date of the walk and asked for the price of 2024-01-08 as the 9th date
C24_NinthDate ==
    /\ fetch.kind = "licensed" /\ fetch.pc = "done"
    /\ fetch.result.kind = "data"
    /\ fetch.queried = <<20240105, 20240104, 20240103, 20240102, 20240101,
                         20231231, 20231230, 20231229, 20240108>>

\* C25: the date of a call without a date argument is the latest business
\* day: it is never a Saturday or a Sunday and, before 15:00, never the
\* day of the call; it is the last weekday up to the day of the call, or
\* up to the day before when the call is made before 15:00.
C25_LatestBusinessDay ==
    (fetch.kind = "licensed" /\ fetch.pc = "running" /\ fetch.date_arg = NULL)
    => /\ Weekday(fetch.target_date) < 5
       /\ fetch.hour < 15 => fetch.target_date # today
       /\ LET from == IF fetch.hour < 15 THEN PrevDay(today) ELSE today
          IN  /\ fetch.target_date <= from
              /\ \A i \in 0..6 :
                    (DaysBefore(from, i) > fetch.target_date)
                    => Weekday(DaysBefore(from, i)) >= 5

\* C30: the observation the licensed fetcher returns carries the date of
\* the quote that was returned: the quote of a fallback date d - k makes
\* an observation dated d - k, not d.
C30_ObservationDate ==
    (fetch.kind = "licensed" /\ fetch.pc = "done" /\ fetch.result.kind = "data")
    => fetch.result.price_date = fetch.quote.Date

----------------------------------------------------------------------------
(* Properties of process_company_data: validation and accounting *)

\* the fetcher returned nothing, or an observation without symbol, price or
\* date, with a price that is not positive, or with a date that is no date
RejectedObservation(row) ==
    \/ row.kind = "none"
    \/ /\ row.kind = "data"
       /\ \/ row.symbol = NoneStr
          \/ row.price = NULL
          \/ row.price_date = NULL
          \/ row.price <= 0
          \/ row.price_date \notin BatchDates

\* C26: when the fetcher returns nothing or an observation that fails the
\* validation, the company is marked error with a reason, no store row
\* changes (no reconciliation, no aggregation, no company update), and
\* the run goes on with the next company; the steps from the fetcher call
\* to the validation write nothing, and the statements that write run for
\* an observation that passed only.
C26_ValidationGate ==
    /\ [][(/\ last'.op = "batch_validate"
            /\ last'.rowcount = 1
            /\ RejectedObservation(last'.row))
           => /\ last'.status = "error"
              /\ LET result == batch'.results[Len(batch'.results)]
                 IN  /\ result.company_id = last'.row.company_id
                     /\ result.status = "error"
                     /\ result.message \in {"fetch_failed", "invalid_data"}
                     /\ result.message = "fetch_failed" <=> last'.row.kind = "none"
              /\ UNCHANGED storeVars
              /\ batch'.error_count = batch.error_count + 1
              /\ batch'.pc = "running"
              /\ batch'.step = "next"
              /\ Len(batch'.results) = Len(batch.results) + 1]_vars
    /\ [][last'.op \in FetchSteps => UNCHANGED storeVars]_vars
    /\ [][last'.op = "batch_statement" => ~RejectedObservation(last'.row)]_vars
    /\ [][(batch'.step = "price_select" /\ batch.step # "price_select")
            => /\ last'.op = "batch_validate"
               /\ ~RejectedObservation(last'.row)]_vars

\* the first company's observation carried a date that does not parse: it
\* was marked error, nothing was stored for it, and the second company was
\* processed and stored
C26_Witness ==
    /\ batch.pc = "done" /\ Len(batch.results) = 2
    /\ batch.results[1].status = "error"
    /\ batch.results[1].message = "invalid_data"
    /\ batch.results[2].status = "success"
    /\ \A r \in stock_prices : r.company_id # batch.results[1].company_id

\* the number of results of a status
RECURSIVE CountStatus(_, _)
CountStatus(results, status) ==
    IF results = <<>> THEN 0
    ELSE (IF Head(results).status = status THEN 1 ELSE 0)
         + CountStatus(Tail(results), status)

\* C29: processing one company increments exactly one of the success,
\* error and skipped counters and gives a result whose status is success,
\* error or skipped; after the run total = success + error + skipped = the
\* number of results, which are in the order of the company list.
C29_BatchAccounting ==
    /\ [][(last'.op \in BatchSteps /\ batch'.step = "next")
            => LET result == batch'.results[Len(batch'.results)]
                   inc(status, before, after) ==
                       after = before + (IF result.status = status THEN 1 ELSE 0)
               IN  /\ Len(batch'.results) = Len(batch.results) + 1
                   /\ result.status \in {"success", "error", "skipped"}
                   /\ inc("success", batch.success_count, batch'.success_count)
                   /\ inc("error", batch.error_count, batch'.error_count)
                   /\ inc("skipped", batch.skip_count, batch'.skip_count)]_vars
    /\ [][(last'.op \in BatchSteps /\ batch'.step # "next")
            => /\ batch'.results = batch.results
               /\ batch'.success_count = batch.success_count
               /\ batch'.error_count = batch.error_count
               /\ batch'.skip_count = batch.skip_count]_vars
    /\ [](batch.pc \in {"running", "done"}
            => /\ batch.success_count = CountStatus(batch.results, "success")
               /\ batch.error_count = CountStatus(batch.results, "error")
               /\ batch.skip_count = CountStatus(batch.results, "skipped")
               /\ \A k \in 1..Len(batch.results) :
                     batch.results[k].symbol = batch.companies[k].symbol)
    /\ [](batch.pc = "done"
            => /\ batch.total = batch.success_count + batch.error_count
                                + batch.skip_count
               /\ batch.total = Len(batch.results))

\* a run over two companies skipped the first and stored the second:
\* total 2 = 1 success + 0 error + 1 skipped
C29_Witness ==
    /\ batch.pc = "done" /\ batch.total = 2
    /\ batch.results[1].status = "skipped"
    /\ batch.results[2].status = "success"
    /\ batch.skip_count = 1 /\ batch.success_count = 1 /\ batch.error_count = 0

----------------------------------------------------------------------------
(* POST /api/stock-data/fetch and POST /api/jquants-data/fetch             *)
(* (backend/routes/api.py).  With a list of symbols: one get_by_symbol per *)
(* step, then process_company_data for the companies found.  Without:      *)
(* process_all_companies.                                                  *)

\* longest symbol list of a request
MaxSymbols == 2

\* the symbol lists of the requests
SymbolLists == UNION {[1..n -> Symbols] : n \in 1..MaxSymbols}

\* the result the route makes for a symbol that is no registered company
UnregisteredResult(symbol) ==
    BatchResult([id |-> NULL, symbol |-> symbol], "error", "unregistered",
                FALSE, NULL, NULL)

\* A lookup that leaves an unknown symbol out without a result.
RouteLookupSilent(b, cs, symbol) ==
    LET company == CompanyBySymbol(cs, symbol)
    IN  IF company # {}
        THEN [b EXCEPT !.companies = Append(@, FirstRow(company))]
        ELSE b

\* one turn of the first loop of the route: company_model.get_by_symbol;
\* the company is appended to the list, or an error result is made
RouteLookup(b, cs, symbol) ==
    LET company == CompanyBySymbol(cs, symbol)
    IN  IF company # {}
        THEN [b EXCEPT !.companies = Append(@, FirstRow(company))]
        ELSE [b EXCEPT !.results = Append(@, UnregisteredResult(symbol))]

\* what the body of a request to a fetch route carries as credentials
Credentials == {"none", "password", "refresh_token"}

\* the fetchers of the routes with the credentials of the body;
\* POST /api/stock-data/fetch reads none
RouteCredentials ==
    {<<"free", "none">>} \cup {<<"licensed", c>> : c \in Credentials}

\* JQuantsDataFetcher.__init__ reads the saved token when no refresh token
\* was given to it
LoadsSavedToken(fetcher, credentials) ==
    fetcher = "licensed" /\ credentials # "refresh_token"

\* POST /api/stock-data/fetch and POST /api/jquants-data/fetch with a list
\* of symbols, up to the first statement.  fetch_jquants_data with no
\* refresh_token and no email and password in the body calls logger.info,
\* a name api.py does not define: the NameError is answered with status
\* 500 before the processor is made.
RouteStart(fetcher, credentials, symbols, force_update) ==
    LET b == [NoBatch EXCEPT !.route = "list",
                             !.fetcher = fetcher,
                             !.force_update = force_update,
                             !.requested = symbols]
        failed == fetcher = "licensed" /\ credentials = "none"
    IN  /\ batch.pc \notin BatchBusy
        /\ callCount < MaxCalls
        /\ callCount' = callCount + 1
        /\ batch' = IF failed THEN [b EXCEPT !.pc = "failed"]
                    ELSE IF LoadsSavedToken(fetcher, credentials)
                    THEN [b EXCEPT !.pc = "load_token"]
                    ELSE [b EXCEPT !.pc = "lookup"]
        /\ last' = Last("route_start", IF failed THEN "error" ELSE "started",
                        0, "none", NoRow, FALSE)
        /\ UNCHANGED <<storeVars, tokenVars, connVars, fetchVars, calls>>

\* POST /api/stock-data/fetch/<symbol> and POST
\* /api/jquants-data/fetch/<symbol> up to get_by_symbol: a symbol that is
\* no company is answered with status 404; the processor is made after
\* the lookup
RouteSingle(fetcher, credentials, symbol, force_update) ==
    LET company == CompanyBySymbol(companies, symbol)
        b == [NoBatch EXCEPT !.route = "single",
                             !.fetcher = fetcher,
                             !.force_update = force_update,
                             !.requested = <<symbol>>]
    IN  /\ batch.pc \notin BatchBusy
        /\ callCount < MaxCalls
        /\ callCount' = callCount + 1
        /\ batch' = IF company = {} THEN [b EXCEPT !.pc = "not_found"]
                    ELSE [b EXCEPT !.companies = <<FirstRow(company)>>,
                                   !.pc = IF LoadsSavedToken(fetcher, credentials)
                                          THEN "load_token" ELSE "running"]
        /\ last' = Last("route_single",
                        IF company = {} THEN "not_found" ELSE "found",
                        0, "none", [company_id |-> NULL, symbol |-> symbol],
                        FALSE)
        /\ UNCHANGED <<storeVars, tokenVars, connVars, fetchVars, calls>>

\* POST /api/stock-data/fetch and POST /api/jquants-data/fetch with a body
\* without symbols, up to the first statement: the processor is made as
\* for a list, then process_all_companies is called
RouteAll(fetcher, credentials, force_update, max_companies) ==
    LET b == [NoBatch EXCEPT !.route = "all",
                             !.fetcher = fetcher,
                             !.force_update = force_update,
                             !.max_companies = max_companies]
        failed == fetcher = "licensed" /\ credentials = "none"
    IN  /\ batch.pc \notin BatchBusy
        /\ callCount < MaxCalls
        /\ callCount' = callCount + 1
        /\ batch' = IF failed THEN [b EXCEPT !.pc = "failed"]
                    ELSE IF LoadsSavedToken(fetcher, credentials)
                    THEN [b EXCEPT !.pc = "load_token"]
                    ELSE [b EXCEPT !.pc = "start"]
        /\ last' = Last("route_all", IF failed THEN "error" ELSE "started",
                        0, "none", NoRow, FALSE)
        /\ UNCHANGED <<storeVars, tokenVars, connVars, fetchVars, calls>>

\* where a route goes on after the constructor of the processor
AfterConstructor(b) ==
    [b EXCEPT !.pc = IF b.route = "list" THEN "lookup"
                     ELSE IF b.route = "all" THEN "start" ELSE "running",
              !.token_id = 0]

\* process_all_companies called by a route: the licensed processor asks
\* get_api_status first and returns when it is not available; then the
\* company list is read and cut to max_companies, and with no company the
\* method returns at once
RouteProcessAll ==
    LET list == GetAllCompanies(companies)
    IN  /\ batch.pc = "start"
        /\ \E available \in IF batch.fetcher = "licensed" THEN BOOLEAN
                             ELSE {TRUE} :
              /\ batch' = IF ~available THEN [batch EXCEPT !.pc = "unavailable"]
                          ELSE IF list = <<>> THEN [batch EXCEPT !.pc = "empty"]
                          ELSE [batch EXCEPT
                                   !.pc = "running",
                                   !.companies = Limited(list, batch.max_companies)]
              /\ last' = Last("batch_start",
                              IF available THEN "started" ELSE "unavailable",
                              0, "none", NoRow, FALSE)
        /\ UNCHANGED <<storeVars, tokenVars, connVars, fetchVars, callVars>>

\* _load_saved_token of the fetcher the processor makes: the SELECT of
\* get_refresh_token('default'); without a row no token is loaded
RouteLoadToken ==
    LET sel == SelectRefreshToken(tokens, "default", now, utc_offset)
    IN  /\ batch.pc = "load_token"
        /\ batch' = IF sel.found
                    THEN [batch EXCEPT !.pc = "touch_token",
                                       !.token_id = sel.token_info.id]
                    ELSE AfterConstructor(batch)
        /\ last' = Last("route_load_token",
                        IF sel.found THEN "found" ELSE "none",
                        0, "none", NoRow, FALSE)
        /\ UNCHANGED <<storeVars, tokenVars, connVars, fetchVars, callVars>>

\* the UPDATE of get_refresh_token with the write lock free: last_used_at
\* of the selected token is set to datetime('now')
RouteTouchToken ==
    /\ batch.pc = "touch_token"
    /\ lock = "none"
    /\ tokens' = TouchRefreshToken(tokens, batch.token_id, now, utc_offset)
    /\ batch' = AfterConstructor(batch)
    /\ last' = Last("route_touch_token", "found", 0, "none", NoRow, FALSE)
    /\ UNCHANGED <<tokenSeq, now, utc_offset, tickCount>>
    /\ UNCHANGED <<storeVars, connVars, fetchVars, callVars>>

\* The UPDATE of get_refresh_token timing out on the write lock of
\* another connection: sqlite3.OperationalError, get_refresh_token returns
\* None, and the constructor goes on without the saved token
RouteTouchLocked ==
    /\ batch.pc = "touch_token"
    /\ lock # "none"
    /\ batch' = AfterConstructor(batch)
    /\ last' = Last("route_touch_token", "locked", 0, "none", NoRow, FALSE)
    /\ UNCHANGED <<storeVars, tokenVars, connVars, fetchVars, callVars>>

\* the number of symbols the first loop has looked up
LookedUp(b) == Len(b.companies) + Len(b.results)

\* one turn of the first loop.  In last', row carries the symbol and
\* rowcount the number of symbols looked up.
RouteSymbol ==
    /\ batch.pc = "lookup"
    /\ LET symbol == batch.requested[LookedUp(batch) + 1]
           b == RouteLookup(batch, companies, symbol)
       IN  /\ batch' = IF LookedUp(batch) + 1 = Len(batch.requested)
                       THEN [b EXCEPT !.pc = "running"] ELSE b
           /\ last' = Last("route_lookup",
                           IF CompanyBySymbol(companies, symbol) # {}
                           THEN "found" ELSE "unregistered",
                           LookedUp(batch) + 1, "none",
                           [company_id |-> NULL, symbol |-> symbol], FALSE)
    /\ UNCHANGED <<storeVars, tokenVars, connVars, fetchVars, callVars>>

\* the number of results of a status: sum(1 for r in results if ...)
RECURSIVE SumStatus(_, _)
SumStatus(results, status) ==
    IF results = <<>> THEN 0
    ELSE (IF Head(results).status = status THEN 1 ELSE 0)
         + SumStatus(Tail(results), status)

\* the summary of the route: total is the length of the symbol list, the
\* other numbers are counted over the results
RouteFinish ==
    /\ batch.pc = "running" /\ batch.step = "next"
    /\ batch.route = "list"
    /\ RouteProcessed(batch) = Len(batch.companies)
    /\ batch' = [batch EXCEPT !.pc = "done",
                              !.total = Len(batch.requested),
                              !.success_count = SumStatus(batch.results, "success"),
                              !.error_count = SumStatus(batch.results, "error"),
                              !.skip_count = SumStatus(batch.results, "skipped")]
    /\ last' = Last("route_finish", "done", Len(batch.requested), "none",
                    NoRow, FALSE)
    /\ UNCHANGED <<storeVars, tokenVars, connVars, fetchVars, callVars>>

\* the answer of a route for one symbol: the result of
\* process_company_data
RouteSingleFinish ==
    /\ batch.pc = "running" /\ batch.step = "next"
    /\ batch.route = "single"
    /\ Len(batch.results) = 1
    /\ batch' = [batch EXCEPT !.pc = "done"]
    /\ last' = Last("route_single_finish", batch.results[1].status, 1, "none",
                    NoRow, FALSE)
    /\ UNCHANGED <<storeVars, tokenVars, connVars, fetchVars, callVars>>

\* the requests to the fetch routes
RouteRequests ==
    \/ \E k \in RouteCredentials, symbols \in SymbolLists, f \in BOOLEAN :
          RouteStart(k[1], k[2], symbols, f)
    \/ \E k \in RouteCredentials, s \in Symbols, f \in BOOLEAN :
          RouteSingle(k[1], k[2], s, f)
    \/ \E k \in RouteCredentials, f \in BOOLEAN, m \in {NULL, 1} :
          RouteAll(k[1], k[2], f, m)

\* the steps of a route around process_company_data
RouteTurn ==
    \/ RouteLoadToken
    \/ RouteTouchToken
    \/ RouteTouchLocked
    \/ RouteSymbol
    \/ RouteProcessAll
    \/ RouteFinish
    \/ RouteSingleFinish
    \/ BatchFinish

\* the token save_refresh_token('t1', 'default', 'Standard') stored at
\* time 0
SavedToken ==
    SaveRefreshToken({}, 0, "t1", "default", "Standard", 0, 0)

\* the connection of the save_refresh_token calls that run while a route
\* is served
Saver == "p2"

\* save_refresh_token('t2', 'default') statement by statement, on a
\* connection of its own; the calls begin while the constructor of a
\* route's fetcher reads the saved token of 'default'
RouteSaves ==
    \/ /\ batch.pc \in {"load_token", "touch_token"}
       /\ SaveUpdate(Saver, "t2", "default")
    \/ SaveInsert(Saver)
    \/ SaveCommit(Saver)

\* the server starts on an empty database, one second after a token was
\* saved or with no saved token
InitRoute ==
    /\ companies = {}
    /\ stock_prices = {}
    /\ financial_metrics = {}
    /\ price_statistics = {}
    /\ today = BatchToday
    /\ last = NoLast
    /\ \/ tokens = {} /\ tokenSeq = 0
       \/ tokens = SavedToken.rows /\ tokenSeq = SavedToken.seq
    /\ now = 1 /\ utc_offset = 0 /\ tickCount = 0
    /\ IdleConn
    /\ IdleBatch
    /\ IdleFetch
    /\ IdleCalls

\* the routes, the registrations of companies without a price and the
\* saves of a token
NextRoute ==
    \/ RegisterCompanies({data \in BatchRegistrations : data.price = NULL})
    \/ RouteSaves
    \/ RouteRequests
    \/ RouteTurn
    \/ BatchTurn

SpecRoute == InitRoute /\ [][NextRoute]_vars

Registered(symbol) == \E c \in companies : c.symbol = symbol

\* the steps of process_company_data
CompanySteps == {"route_company"} \cup BatchSteps

\* C27: in a batch over a list of symbols, every symbol that is no
\* registered company when the route looks it up gets an error result
\* saying that it is not registered, the fetcher is not called for it and
\* no store row is made or changed for it; a request that has ended has
\* one result for every symbol asked for, and the summary's total is the
\* number of symbols asked for.
C27_UnregisteredSymbols ==
    /\ [][last'.op = "route_lookup"
            => /\ UNCHANGED storeVars
               /\ IF Registered(last'.row.symbol)
                  THEN /\ batch'.results = batch.results
                       /\ Len(batch'.companies) = Len(batch.companies) + 1
                       /\ batch'.companies[Len(batch'.companies)].symbol
                            = last'.row.symbol
                  ELSE /\ batch'.companies = batch.companies
                       /\ batch'.results
                            = Append(batch.results,
                                     UnregisteredResult(last'.row.symbol))
                       /\ UnregisteredResult(last'.row.symbol).status = "error"
                       /\ UnregisteredResult(last'.row.symbol).message
                            = "unregistered"]_vars
    /\ [][last'.op \in CompanySteps
            => /\ Registered(last'.row.symbol) \/ last'.row.symbol = NoneStr
               /\ {c.symbol : c \in companies'} = {c.symbol : c \in companies}
               /\ \A r \in stock_prices' \ stock_prices :
                     r.company_id = last'.row.company_id
               /\ \A r \in price_statistics' \ price_statistics :
                     r.company_id = last'.row.company_id
               /\ \E k \in 1..Len(batch.companies) :
                     batch.companies[k].id = last'.row.company_id
               /\ \A c \in companies : c.id = last'.row.company_id
                     => Registered(c.symbol)]_vars
    /\ [](\A k \in 1..Len(batch.results) :
             batch.results[k].message = "unregistered"
             => \A j \in 1..Len(batch.companies) :
                   batch.companies[j].id # batch.results[k].company_id)
    /\ [](batch.route = "list" /\ batch.pc \in {"done", "failed"}
            => /\ batch.total = Len(batch.requested)
               /\ Len(batch.results) = Len(batch.requested)
               /\ batch.total = batch.success_count + batch.error_count
                                + batch.skip_count)

\* the list <<"7203", "9999">> with 9999 not registered and 7203 stored:
\* total 2, success 1, error 1, and the result of 9999 says unregistered
C27_Witness ==
    /\ batch.pc = "done"
    /\ batch.requested = <<"7203", "9999">>
    /\ batch.total = 2 /\ batch.success_count = 1 /\ batch.error_count = 1
    /\ \E k \in 1..2 : /\ batch.results[k].symbol = "9999"
                       /\ batch.results[k].message = "unregistered"
    /\ \E k \in 1..2 : /\ batch.results[k].symbol = "7203"
                       /\ batch.results[k].status = "success"
    /\ stock_prices # {}
    /\ ~Registered("9999")

----------------------------------------------------------------------------
(* Volume comparison of StockPrice.create_or_update *)

\* C28: the volume is compared exactly: when a price row exists for the
\* key and the candidate price is within 0.01 of the stored price, the
\* reconcile answers warning (conflict) if the candidate volume differs
\* from the stored volume by any amount, 1 included, and answers
\* unchanged only if the volumes are equal.
C28_VolumeExact ==
    [][last'.op = "price_reconcile"
         => \A e \in PriceRowsAt(stock_prices, last'.row.company_id,
                                 last'.row.price_date) :
               Abs(e.price - last'.row.price) <= 10
               => /\ e.volume # last'.row.volume
                     => /\ last'.status = "warning"
                        /\ stock_prices' = stock_prices
                  /\ last'.status = "unchanged" => e.volume = last'.row.volume
                  /\ last'.status \in {"warning", "unchanged"}]_vars

\* a candidate with the stored price and a volume 1 away from the stored
\* volume was answered with warning
C28_Witness ==
    /\ last.op = "price_reconcile" /\ last.status = "warning"
    /\ \E e \in PriceRowsAt(stock_prices, last.row.company_id, last.row.price_date) :
          /\ e.price = last.row.price
          /\ Abs(e.volume - last.row.volume) = 1

====
